---- MODULE Spec2Model ----
(***************************************************************************)
(* Market-data acquisition and caching layer of the stock dashboard:       *)
(* symbol helpers, fallback records, the two provider adapters, the         *)
(* aggregator batchGetFullData, the TTL memory cache and the startup load   *)
(* of the durable cache (server/stockService.ts, server/scheduler.ts).      *)
(*                                                                          *)
(* Strings are sequences of one-character strings, so that toUpperCase,     *)
(* trim and the suffix regular expressions are computed as the code         *)
(* computes them.  Chinese names of TW_SECTOR_MAP are written as ASCII      *)
(* labels.                                                                  *)
(***************************************************************************)
EXTENDS Integers, Sequences, FiniteSets, TLC

(* ------------------------------------------------------------------ *)
(* Strings                                                             *)
(* ------------------------------------------------------------------ *)

Lower == <<"a","b","c","d","e","f","g","h","i","j","k","l","m",
           "n","o","p","q","r","s","t","u","v","w","x","y","z">>
Upper == <<"A","B","C","D","E","F","G","H","I","J","K","L","M",
           "N","O","P","Q","R","S","T","U","V","W","X","Y","Z">>
Digits == {"0","1","2","3","4","5","6","7","8","9"}

\* String.prototype.toUpperCase on one character
UpperChar(ch) ==
  IF \E i \in 1..26 : Lower[i] = ch
    THEN Upper[CHOOSE i \in 1..26 : Lower[i] = ch]
    ELSE ch

toUpperCase(s) == [i \in 1..Len(s) |-> UpperChar(s[i])]

IsSpace(ch) == ch = " "

RECURSIVE TrimLeft(_)
TrimLeft(s) == IF s # <<>> /\ IsSpace(Head(s)) THEN TrimLeft(Tail(s)) ELSE s

RECURSIVE TrimRight(_)
TrimRight(s) ==
  IF s # <<>> /\ IsSpace(s[Len(s)]) THEN TrimRight(SubSeq(s, 1, Len(s) - 1)) ELSE s

\* String.prototype.trim
trim(s) == TrimRight(TrimLeft(s))

\* String.prototype.endsWith (case-sensitive)
endsWith(s, suf) ==
  /\ Len(s) >= Len(suf)
  /\ SubSeq(s, Len(s) - Len(suf) + 1, Len(s)) = suf

\* a regular expression /suf$/i matches: suffix compared ignoring case
EndsWithNoCase(s, suf) == endsWith(toUpperCase(s), toUpperCase(suf))

DropLast(s, n) == SubSeq(s, 1, Len(s) - n)

\* String.prototype.includes
includes(s, sub) ==
  \E i \in 1..(Len(s) - Len(sub) + 1) : SubSeq(s, i, i + Len(sub) - 1) = sub

DotTW   == <<".","T","W">>
DotTWO  == <<".","T","W","O">>
ColXTAI == <<":","X","T","A","I">>

\* s.replace(/\.TW$|\.TWO$/i, "")
StripTwSuffix(s) ==
  IF EndsWithNoCase(s, DotTW) THEN DropLast(s, 3)
  ELSE IF EndsWithNoCase(s, DotTWO) THEN DropLast(s, 4)
  ELSE s

\* s.replace(/:XTAI$/i, "")
StripXtai(s) == IF EndsWithNoCase(s, ColXTAI) THEN DropLast(s, 5) ELSE s

\* s.replace(/\.TW$|\.TWO$|:XTAI$/i, "")
StripAnySuffix(s) ==
  IF EndsWithNoCase(s, DotTW) THEN DropLast(s, 3)
  ELSE IF EndsWithNoCase(s, DotTWO) THEN DropLast(s, 4)
  ELSE IF EndsWithNoCase(s, ColXTAI) THEN DropLast(s, 5)
  ELSE s

\* /^\d{4,6}$/.test(s)
IsTwCode(s) == Len(s) \in 4..6 /\ \A i \in 1..Len(s) : s[i] \in Digits

(* ------------------------------------------------------------------ *)
(* Symbol helpers                                                      *)
(* ------------------------------------------------------------------ *)

getTwBaseCode(s) == trim(StripXtai(StripTwSuffix(s)))

toTwelveDataSymbol(s) ==
  LET u == trim(toUpperCase(s))
      base == StripTwSuffix(u)
  IN IF includes(u, ColXTAI) THEN u
     ELSE IF IsTwCode(base) THEN base \o ColXTAI
     ELSE u

toYfinanceSymbol(s) ==
  LET u == trim(toUpperCase(s))
      base == StripTwSuffix(StripXtai(u))
  IN IF endsWith(u, DotTW) \/ endsWith(u, DotTWO) THEN u
     ELSE IF IsTwCode(base) THEN base \o DotTW
     ELSE u

canonicalSymbol(s) ==
  LET u == trim(toUpperCase(s))
      base == StripTwSuffix(StripXtai(u))
  IN IF IsTwCode(base) THEN base \o DotTW ELSE base

\* detectMarket(s).market
detectMarket(s) ==
  LET u == toUpperCase(s)
  IN IF includes(u, ColXTAI) \/ endsWith(u, DotTW) \/ endsWith(u, DotTWO) THEN "TW"
     ELSE IF IsTwCode(StripAnySuffix(u)) THEN "TW"
     ELSE "US"


(* ------------------------------------------------------------------ *)
(* Static lookup tables (a few of their rows) and program constants    *)
(* ------------------------------------------------------------------ *)

C2330 == <<"2","3","3","0">>
AAPL  == <<"A","A","P","L">>

\* TW_SECTOR_MAP[base]: <<>> when base is no key of the table
TW_SECTOR_MAP(base) ==
  IF base = C2330 THEN <<[name |-> <<"T","S","M","C">>, sector |-> "Semiconductor"]>>
  ELSE IF base = <<"0","0","5","0">> THEN <<[name |-> <<"T","W","5","0">>, sector |-> "ETF"]>>
  ELSE <<>>

\* US_SECTOR_MAP[c]: <<>> when c is no key of the table
US_SECTOR_MAP(c) ==
  IF c = AAPL THEN <<"Technology">>
  ELSE IF c = <<"S","P","Y">> THEN <<"ETF">>
  ELSE <<>>

DAILY_UPDATE_HOUR == 6
DAILY_UPDATE_MIN == 0
BATCH_SIZE == 5
PAUSE_MS == 3000
HOUR_MS == 3600000
MINUTE_MS == 60000
DAY_MS == 86400000
TTL_FULL == 30000
TTL_DB_CACHE == 86400000
BENCH_TTL == 3600000
YF_RESET_MS == 300000

(* ------------------------------------------------------------------ *)
(* Bounds and the inputs the model draws                               *)
(* ------------------------------------------------------------------ *)

MaxBatch  == 2    \* longest symbols array of one batchGetFullData call
MaxStarts == 2    \* batchGetFullData calls started in one behaviour
MaxTicks  == 1    \* clock advances in one behaviour
MaxApply  == 2    \* applications of a function taken alone, each to the last result
MaxRuns   == 1    \* stock.forceRefresh requests in one behaviour
MaxFires  == 1    \* firings of the scheduler's timer in one behaviour
MaxFlushes == 1   \* stock.flushCache requests in one behaviour
MaxRestarts == 1  \* process restarts in one behaviour

Callers == {"req1", "req2"}          \* concurrent request slots
Runners == {"timer", "manual"}       \* who calls runDailyUpdate: the timer callback, stock.forceRefresh
Flushers == Runners \cup {"endpoint"} \* who calls flushCacheToDB: a run, stock.flushCache

\* raw symbols callers pass: a US ticker, three notations of one Taiwan
\* ticker (one with a trailing blank) and an unknown symbol
SymbolInputs ==
  { AAPL,
    C2330,
    <<"2","3","3","0",".","T","W">>,
    <<"2","3","3","0"," ">>,
    <<"B","A","D","S","Y","M">> }

RECURSIVE SeqsUpTo(_, _)
SeqsUpTo(S, n) ==
  IF n = 0 THEN {<<>>}
  ELSE LET shorter == SeqsUpTo(S, n - 1)
       IN shorter \cup {Append(q, x) : q \in {r \in shorter : Len(r) = n - 1}, x \in S}

Batches == SeqsUpTo(SymbolInputs, MaxBatch)

\* the batches of the requests after the first: one ticker in two notations
C2330TW == <<"2","3","3","0",".","T","W">>
NarrowBatches == { <<C2330>>, <<C2330TW>> }
\* the batches of overlapping requests: the ticker alone and in both notations
ConcBatches == { <<C2330>>, <<C2330, C2330TW>> }

Closes == {0, 100}                    \* a quote's close / price; 0: absent or not a number
TsCloses == <<101, 100>>              \* the daily closes of a time series, latest first
\* 31 daily closes, the latest of them 0 (close: "0" or null)
TsZeroCloses == [i \in 1..31 |-> IF i = 1 THEN 0 ELSE 100]
TickSteps == {TTL_FULL, TTL_DB_CACHE + 1}

\* the strings canonicalSymbol is applied to on its own: empty, upper and lower
\* case, a leading blank, too short a code, a code with a letter, each followed
\* by up to two qualifiers or blanks
CanonCores ==
  { <<>>, AAPL, <<"a","a","p","l">>, C2330, <<" ","2","3","3","0">>, <<"1","2">>,
    <<"0","0","6","3","1","L">> }
CanonAffixes ==
  { <<>>, <<".","T","W">>, <<".","T","W","O">>, <<":","X","T","A","I">>,
    <<".","t","w">>, <<" ">> }
CanonInputs == {c \o a \o b : c \in CanonCores, a \in CanonAffixes, b \in CanonAffixes}

\* the symbol arrays of stock.forceRefresh: none, one Taiwan ticker, and twelve
\* symbols, one ticker in its two notations in turn (the input is any array of
\* strings)
TwelveSymbols ==
  <<C2330, C2330TW, C2330, C2330TW, C2330, C2330TW, C2330, C2330TW, C2330, C2330TW,
    C2330, C2330TW>>
ManualLists == { <<>>, <<C2330>>, TwelveSymbols }
\* what getAllTrackedSymbols gives: the distinct symbols of holdings and watchlists
TrackedLists == { <<AAPL>> }

Range(f) == {f[i] : i \in DOMAIN f}
Min(a, b) == IF a < b THEN a ELSE b

(* ------------------------------------------------------------------ *)
(* The symbol helpers on the raw symbols of this model, tabulated       *)
(* ------------------------------------------------------------------ *)

CanonTab  == [s \in SymbolInputs |-> canonicalSymbol(s)]
TdSymTab  == [s \in SymbolInputs |-> toTwelveDataSymbol(s)]
YfSymTab  == [s \in SymbolInputs |-> toYfinanceSymbol(s)]
MarketTab == [s \in SymbolInputs |-> detectMarket(s)]
BaseTab   == [s \in SymbolInputs |-> getTwBaseCode(s)]

Canon(s)  == CanonTab[s]
TdSym(s)  == TdSymTab[s]
YfSym(s)  == YfSymTab[s]
Market(s) == MarketTab[s]

(* ------------------------------------------------------------------ *)
(* Quote records                                                       *)
(* ------------------------------------------------------------------ *)

\* const tw = market === "TW" ? TW_SECTOR_MAP[base] : null   (<<>> for null/undefined)
TwInfo(raw) == IF Market(raw) = "TW" THEN TW_SECTOR_MAP(BaseTab[raw]) ELSE <<>>

createFallbackData(symbol) ==
  LET tw == TwInfo(symbol)
      c  == Canon(symbol)
  IN [ symbol |-> c,
       name |-> IF tw # <<>> THEN tw[1].name ELSE c,
       price |-> 0, prevClose |-> 0, change |-> 0,
       ma50 |-> 0, ma200 |-> 0, rsi |-> 50,
       sector |-> IF tw # <<>> THEN tw[1].sector
                  ELSE IF US_SECTOR_MAP(c) # <<>> THEN US_SECTOR_MAP(c)[1]
                  ELSE "Other",
       beta |-> 1, volatility30d |-> 20, sparkline |-> <<>> ]

FallbackTab == [s \in SymbolInputs |-> createFallbackData(s)]

\* symbols.map(createFallbackData)
MapFallback(symbols) == [i \in 1..Len(symbols) |-> FallbackTab[symbols[i]]]

(* ------------------------------------------------------------------ *)
(* Technical calculation helpers                                       *)
(* ------------------------------------------------------------------ *)

RECURSIVE SumSeq(_)
SumSeq(s) ==
  IF s = <<>> THEN 0
  ELSE IF Len(s) = 1 THEN s[1]
  ELSE LET h == Len(s) \div 2
       IN SumSeq(SubSeq(s, 1, h)) + SumSeq(SubSeq(s, h + 1, Len(s)))

\* The numbers of the calculations are fractions n/d in lowest terms with
\* d > 0, so that a mean or a quotient is the exact value and not a rounded one
RECURSIVE Gcd(_, _)
Gcd(a, b) == IF b = 0 THEN a ELSE Gcd(b, a % b)

Abs(x) == IF x < 0 THEN 0 - x ELSE x

Frac(n, d) ==
  LET g == Gcd(Abs(n), Abs(d))
      s == IF d < 0 THEN 0 - 1 ELSE 1
  IN [n |-> (s * n) \div g, d |-> (s * d) \div g]

Num(k) == [n |-> k, d |-> 1]

FAdd(x, y) == Frac(x.n * y.d + y.n * x.d, x.d * y.d)
FSub(x, y) == Frac(x.n * y.d - y.n * x.d, x.d * y.d)
FMul(x, y) == Frac(x.n * y.n, x.d * y.d)
FDiv(x, y) == Frac(x.n * y.d, x.d * y.n)

RECURSIVE FSum(_)
FSum(s) ==
  IF s = <<>> THEN Num(0)
  ELSE IF Len(s) = 1 THEN s[1]
  ELSE LET h == Len(s) \div 2
       IN FAdd(FSum(SubSeq(s, 1, h)), FSum(SubSeq(s, h + 1, Len(s))))

\* the whole part of a number, which is what a record of this model carries
Whole(x) == x.n \div x.d

\* (variant) below p closes the mean is taken over the closes there are
calcMAOverAvailable(closes, p) ==
  IF closes = <<>> THEN Num(0)
  ELSE Frac(SumSeq(SubSeq(closes, 1, Min(p, Len(closes)))), Min(p, Len(closes)))

calcMA(closes, p) ==
  IF Len(closes) < p THEN Num(0) ELSE Frac(SumSeq(SubSeq(closes, 1, p)), p)

\* sum of the gains (up = TRUE) or of the losses over the first `period` deltas
RECURSIVE DeltaSum(_, _, _)
DeltaSum(closes, period, up) ==
  IF period = 0 THEN 0
  ELSE LET d == closes[period] - closes[period + 1]
       IN DeltaSum(closes, period - 1, up)
          + (IF up THEN (IF d > 0 THEN d ELSE 0) ELSE (IF d > 0 THEN 0 ELSE 0 - d))

\* (variant) a series without losses gets the neutral 50
calcRSINeutral(closes, period) ==
  IF Len(closes) < period + 1 THEN Num(50)
  ELSE LET g == DeltaSum(closes, period, TRUE)
           l == DeltaSum(closes, period, FALSE)
       IN IF l = 0 THEN Num(50) ELSE Frac(100 * g, g + l)

calcRSI(closes, period) ==
  IF Len(closes) < period + 1 THEN Num(50)
  ELSE LET g == DeltaSum(closes, period, TRUE)
           l == DeltaSum(closes, period, FALSE)
           ag == Frac(g, period)
           al == Frac(l, period)
       IN IF al = Num(0) THEN Num(100)
          ELSE FSub(Num(100), FDiv(Num(100), FAdd(Num(1), FDiv(ag, al))))

\* number of usable log returns among the first `days` periods
UsableReturns(closes, n) == Cardinality({i \in 1..n : closes[i + 1] > 0})

\* stand-in for sqrt(variance of the log returns) * sqrt(252) * 100, which is
\* floating point: the spread of the closes in percent of the oldest one
SpreadPct(closes, n) ==
  LET lo == CHOOSE x \in Range(SubSeq(closes, 1, n + 1)) :
              \A y \in Range(SubSeq(closes, 1, n + 1)) : x <= y
      hi == CHOOSE x \in Range(SubSeq(closes, 1, n + 1)) :
              \A y \in Range(SubSeq(closes, 1, n + 1)) : x >= y
  IN IF lo > 0 THEN (100 * (hi - lo)) \div lo ELSE 0

\* Math.log(closes[i] / closes[i + 1]) is -Infinity or NaN for one of the pairs
\* pushed: the older close is positive, the newer one is zero or negative
NonFiniteReturn(closes, n) ==
  \E i \in 1..n : closes[i + 1] > 0 /\ closes[i] <= 0

\* the number NaN, which the sums and the square root hand on
NaN == -1

calcVol(closes, days) ==
  IF Len(closes) < days + 1 THEN 20
  ELSE IF UsableReturns(closes, Min(days, Len(closes) - 1)) < 5 THEN 20
  ELSE IF NonFiniteReturn(closes, Min(days, Len(closes) - 1)) THEN NaN
  ELSE SpreadPct(closes, Min(days, Len(closes) - 1))

\* the pairs of returns of the periods 1..n whose two older closes are
\* positive, in the order of the periods: sr and br of calcBeta
PairedReturns(sc, bc, n) ==
  LET kept == SelectSeq([i \in 1..n |-> i], LAMBDA i : sc[i + 1] > 0 /\ bc[i + 1] > 0)
  IN [k \in 1..Len(kept) |->
        [s |-> Frac(sc[kept[k]] - sc[kept[k] + 1], sc[kept[k] + 1]),
         b |-> Frac(bc[kept[k]] - bc[kept[k] + 1], bc[kept[k] + 1])]]

\* (variant) the pairs are not counted before the means are taken
calcBetaUncounted(sc, bc, days) ==
  LET n == Min(days, Min(Len(sc) - 1, Len(bc) - 1))
  IN IF n < 10 THEN Num(1)
     ELSE LET r == PairedReturns(sc, bc, n)
          IN IF r = <<>> THEN Num(1)
             ELSE LET ms == FDiv(FSum([i \in 1..Len(r) |-> r[i].s]), Num(Len(r)))
                      mb == FDiv(FSum([i \in 1..Len(r) |-> r[i].b]), Num(Len(r)))
                      cov == FSum([i \in 1..Len(r) |->
                                     FMul(FSub(r[i].s, ms), FSub(r[i].b, mb))])
                      vb == FSum([i \in 1..Len(r) |->
                                    FMul(FSub(r[i].b, mb), FSub(r[i].b, mb))])
                  IN IF vb.n > 0 THEN FDiv(cov, vb) ELSE Num(1)

calcBeta(sc, bc, days) ==
  LET n == Min(days, Min(Len(sc) - 1, Len(bc) - 1))
  IN IF n < 10 THEN Num(1)
     ELSE LET r == PairedReturns(sc, bc, n)
          IN IF Len(r) < 10 THEN Num(1)
             ELSE LET ms == FDiv(FSum([i \in 1..Len(r) |-> r[i].s]), Num(Len(r)))
                      mb == FDiv(FSum([i \in 1..Len(r) |-> r[i].b]), Num(Len(r)))
                      cov == FSum([i \in 1..Len(r) |->
                                     FMul(FSub(r[i].s, ms), FSub(r[i].b, mb))])
                      vb == FSum([i \in 1..Len(r) |->
                                    FMul(FSub(r[i].b, mb), FSub(r[i].b, mb))])
                  IN IF vb.n > 0 THEN FDiv(cov, vb) ELSE Num(1)

volCat(v) == IF v >= 35 THEN "high" ELSE IF v >= 20 THEN "medium" ELSE "low"

\* (variant) the slice is kept in the order of the history
ReverseKeepsOrder(s) == s

Reverse(s) == [i \in 1..Len(s) |-> s[Len(s) + 1 - i]]

(* ------------------------------------------------------------------ *)
(* TTL memory cache: key -> [value, expireAt]; keys are canonical       *)
(* symbols, standing for the strings `full:${symbol}`                   *)
(* ------------------------------------------------------------------ *)

\* (variant) get without the expiry check
TTLCache_getNoExpiry(store, key, t) ==
  IF key \notin DOMAIN store THEN [value |-> <<>>, store |-> store]
  ELSE [value |-> <<store[key].value>>, store |-> store]

\* TTLCache.get at time t: the value read (<<>> for null) and the store after it
TTLCache_get(store, key, t) ==
  IF key \notin DOMAIN store THEN [value |-> <<>>, store |-> store]
  ELSE IF t > store[key].expireAt
    THEN [value |-> <<>>, store |-> [k \in DOMAIN store \ {key} |-> store[k]]]
  ELSE [value |-> <<store[key].value>>, store |-> store]

\* TTLCache.set at time t
TTLCache_set(store, key, value, ttlMs, t) ==
  [k \in DOMAIN store \cup {key} |->
     IF k = key THEN [value |-> value, expireAt |-> t + ttlMs] ELSE store[k]]

\* TTLCache.stats at time t
TTLCache_stats(store, t) ==
  [total |-> Cardinality(DOMAIN store),
   alive |-> Cardinality({k \in DOMAIN store : store[k].expireAt > t})]

(* ------------------------------------------------------------------ *)
(* Provider answers                                                    *)
(* ------------------------------------------------------------------ *)

PNAME == <<"P","N">>                  \* the name a provider element carries

\* one element of the primary quote answer: an error object or a quote
QuoteElems == {[k |-> "error", close |-> 0]} \cup {[k |-> "ok", close |-> p] : p \in Closes}

\* an HTTP exchange with the primary: kind "neterr" is a timeout or network
\* error, "http" a non-2xx status, "json" a parsed body.  A quote body is read
\* as one quote object (obj) for one symbol and as a map keyed by symbol (map)
\* for several; a key absent from map is a missing element.
QuoteBodies(tdSyms) ==
  IF Len(tdSyms) = 1
    THEN {[obj |-> <<e>>, map |-> <<>>] : e \in {x \in QuoteElems : x.k = "ok"}}
    ELSE {[obj |-> <<>>, map |-> m] :
            m \in UNION {[D -> QuoteElems] : D \in SUBSET Range(tdSyms)}}

QuoteResponses(tdSyms) ==
  {[kind |-> "neterr", status |-> "ok", obj |-> <<>>, map |-> <<>>],
   [kind |-> "http", status |-> "ok", obj |-> <<>>, map |-> <<>>],
   [kind |-> "json", status |-> "error", obj |-> <<>>, map |-> <<>>]}
  \cup {[kind |-> "json", status |-> "ok", obj |-> b.obj, map |-> b.map] :
          b \in QuoteBodies(tdSyms)}

\* a time-series exchange: it fails (shape "novalues": no closes), or its body
\* gives every symbol its closes ("values") or carries a values field that is
\* no array of objects ("malformed")
SeriesResponses ==
  {[kind |-> "neterr", status |-> "ok", shape |-> "novalues"],
   [kind |-> "json", status |-> "ok", shape |-> "values"],
   [kind |-> "json", status |-> "ok", shape |-> "malformed"]}

\* the time-series exchange of the symbols: also, when AAPL is asked for, a body
\* that gives AAPL a month of closes whose latest is zero ("zero")
StockSeriesResponses(tdSyms) ==
  SeriesResponses
    \cup (IF AAPL \in Range(tdSyms)
           THEN {[kind |-> "json", status |-> "ok", shape |-> "zero"]} ELSE {})

\* one position of the secondary's array: absent, error-flagged or a quote
\* (rsi 0: the element has no rsi)
YfElems == {[k |-> "missing", price |-> 0, rsi |-> 0], [k |-> "error", price |-> 0, rsi |-> 0]}
           \cup {[k |-> "ok", price |-> p, rsi |-> 0] : p \in Closes}

\* the arrays of n positions: any elements up to MaxBatch positions, and for a
\* longer array the first MaxBatch elements repeated in turn
YfArrays(n) ==
  IF n <= MaxBatch THEN [1..n -> YfElems]
  ELSE {[i \in 1..n |-> a[((i - 1) % MaxBatch) + 1]] : a \in [1..MaxBatch -> YfElems]}

YfResponses(n) ==
  {[kind |-> "neterr", arr |-> <<>>], [kind |-> "http", arr |-> <<>>]}
  \cup {[kind |-> "json", arr |-> a] : a \in YfArrays(n)}

\* the answers to a batch request for `symbols`: also, when AAPL alone is asked
\* for, a quote whose rsi field is 150
YfResponsesFor(symbols) ==
  YfResponses(Len(symbols))
    \cup (IF symbols = <<AAPL>>
           THEN {[kind |-> "json", arr |-> <<[k |-> "ok", price |-> 100, rsi |-> 150]>>]}
           ELSE {})

(* ------------------------------------------------------------------ *)
(* Twelve Data adapter                                                 *)
(* ------------------------------------------------------------------ *)

\* tdFetch: <<>> for null, else <<body>>; hasKey is !!TWELVE_DATA_KEY
tdFetch(hasKey, resp) ==
  IF ~hasKey THEN <<>>
  ELSE IF resp.kind = "neterr" THEN <<>>
  ELSE IF resp.kind = "http" THEN <<>>
  ELSE IF resp.status = "error" THEN <<>>
  ELSE <<resp>>

\* "Parse quotes": the quotes object, td symbol -> element
ParseQuotes(tdSyms, quoteRaw) ==
  IF Len(tdSyms) = 1
    THEN [k \in {tdSyms[1]} |-> quoteRaw.obj[1]]
    ELSE quoteRaw.map

\* "Parse time series" throws a TypeError on a values field it cannot map
SeriesThrows(tsRaw) == tsRaw # <<>> /\ tsRaw[1].shape = "malformed"

\* the series object, td symbol -> closes
ParseSeries(tdSyms, tsRaw) ==
  IF tsRaw # <<>> /\ tsRaw[1].shape = "values"
    THEN [k \in Range(tdSyms) |-> TsCloses]
  ELSE IF tsRaw # <<>> /\ tsRaw[1].shape = "zero"
    THEN [k \in Range(tdSyms) |-> IF k = AAPL THEN TsZeroCloses ELSE TsCloses]
    ELSE <<>>

\* the record fetchFromTwelveData maps one symbol to
TdRecord(raw, quotes, series, benchCloses) ==
  LET td == TdSym(raw)
      closes == IF td \in DOMAIN series THEN series[td] ELSE <<>>
      c == Canon(raw)
      tw == TwInfo(raw)
  IN IF td \notin DOMAIN quotes \/ quotes[td].k = "error" THEN FallbackTab[raw]
     ELSE LET price == quotes[td].close
              vol == calcVol(closes, 30)
          IN [ symbol |-> c,
               name |-> IF tw # <<>> THEN tw[1].name ELSE PNAME,
               price |-> price, prevClose |-> 0, change |-> price - 0,
               ma50 |-> Whole(calcMA(closes, 50)),
               ma200 |-> Whole(calcMA(closes, 200)),
               rsi |-> Whole(calcRSI(closes, 14)),
               sector |-> IF tw # <<>> THEN tw[1].sector
                          ELSE IF US_SECTOR_MAP(c) # <<>> THEN US_SECTOR_MAP(c)[1]
                          ELSE "NASDAQ",
               beta |-> Whole(calcBeta(closes, benchCloses, 60)),
               volatility30d |-> vol,
               sparkline |-> Reverse(SubSeq(closes, 1, Min(30, Len(closes)))) ]

\* (variant) one missing or error-flagged element fails the whole batch
TdMapAllOrNothing(symbols, quotes, series, b) ==
  IF \E i \in 1..Len(symbols) :
       TdSym(symbols[i]) \notin DOMAIN quotes \/ quotes[TdSym(symbols[i])].k = "error"
    THEN MapFallback(symbols)
    ELSE [i \in 1..Len(symbols) |->
            TdRecord(symbols[i], quotes, series,
                     IF Market(symbols[i]) = "TW" THEN b.tw ELSE b.us)]

\* the final symbols.map of fetchFromTwelveData
TdMap(symbols, quotes, series, b) ==
  [i \in 1..Len(symbols) |->
     TdRecord(symbols[i], quotes, series,
              IF Market(symbols[i]) = "TW" THEN b.tw ELSE b.us)]

\* getBenchCloses: the cached series are used while younger than an hour
BenchFresh(b, t) == b # <<>> /\ t - b[1].at < BENCH_TTL

BenchThrows(spy, tw50) == SeriesThrows(spy) \/ SeriesThrows(tw50)

BenchOf(raw) == IF raw # <<>> /\ raw[1].shape = "values" THEN TsCloses ELSE <<>>

(* ------------------------------------------------------------------ *)
(* yfinance adapter                                                    *)
(* ------------------------------------------------------------------ *)

YfRecord(sym, d) ==
  LET c == Canon(sym)
      tw == TwInfo(sym)
  IN IF d.k = "missing" \/ d.k = "error" THEN FallbackTab[sym]
     ELSE [ symbol |-> c,
            name |-> IF tw # <<>> THEN tw[1].name ELSE PNAME,
            price |-> d.price, prevClose |-> 0, change |-> 0,
            ma50 |-> 0, ma200 |-> 0, rsi |-> IF d.rsi # 0 THEN d.rsi ELSE 50,
            sector |-> IF tw # <<>> THEN tw[1].sector
                       ELSE IF US_SECTOR_MAP(c) # <<>> THEN US_SECTOR_MAP(c)[1]
                       ELSE "Other",
            beta |-> 1, volatility30d |-> 20, sparkline |-> <<>> ]

\* fetchFromYfinance once the batch answer is in
YfMap(symbols, resp) ==
  IF resp.kind # "json" THEN MapFallback(symbols)
  ELSE [i \in 1..Len(symbols) |-> YfRecord(symbols[i], resp.arr[i])]

(* ------------------------------------------------------------------ *)
(* State                                                               *)
(* ------------------------------------------------------------------ *)

VARIABLES
  now,          \* Date.now()
  ticks,        \* clock advances so far
  starts,       \* batchGetFullData calls started so far
  hasKey,       \* TWELVE_DATA_KEY is configured
  cache,        \* the TTLCache store
  bench,        \* _bench: <<>> or <<[us, tw, at]>>
  yfAvail,      \* _yfinanceAvailable: <<>> for null, <<TRUE>>, <<FALSE>>
  yfTimers,     \* due times of the pending resets of _yfinanceAvailable
  slots,        \* the request slots in use: one (requests one at a time) or both
  call,         \* the batchGetFullData call of each request slot
  db,           \* stock_cache rows: symbol -> data
  loadState,    \* loadCacheFromDB of startScheduler: "pending", "done" or "failed"
  firstServed,  \* key -> <<>> or <<[rec, exp]>>: the earliest serve of the key whose
                \* cache entry has not expired since, and that entry's expireAt
  liveOk,       \* keys a provider has resolved with price > 0
  dbKeys,       \* keys whose stored entry was written by loadCacheFromDB
  isRunning,    \* _isRunning of the scheduler
  timers,       \* due times of the armed timers of scheduleNext
  cb,           \* the timer callback of scheduleNext: where it stands
  run,          \* the runDailyUpdate execution of each requester
  flush,        \* the flushCacheToDB execution of each requester
  restarts,     \* process restarts so far
  dbSrc,        \* symbol -> the record whose JSON text the row of stock_cache holds
  input,        \* the argument of the function applied (functions taken alone)
  output,       \* <<>> or <<its result>>
  alerts,       \* price_alerts rows, the row of id i at index i
  check         \* the priceAlert.checkAndNotify execution of each request slot

\* the state of the scheduler and of the durable flush
schedVars == <<isRunning, timers, cb, run, flush, restarts, dbSrc>>

\* the state of the quote service
baseVars == <<now, ticks, starts, hasKey, cache, bench, yfAvail, yfTimers, slots, call, db,
              loadState, firstServed, liveOk, dbKeys>>

\* the state of a function taken alone
pureVars == <<input, output>>

\* the state of the price alerts
alertVars == <<alerts, check>>

vars == <<now, ticks, starts, hasKey, cache, bench, yfAvail, yfTimers, slots, call, db,
          loadState, firstServed, liveOk, dbKeys, schedVars, pureVars, alertVars>>

Keys == {Canon(s) : s \in SymbolInputs}

IdleCall ==
  [pc |-> "idle", no |-> 0, symbols |-> <<>>, results |-> <<>>, uncached |-> <<>>,
   hitExp |-> <<>>, quotes |-> <<>>, series |-> <<>>, tdArg |-> <<>>, tdOut |-> <<>>,
   tdPrices |-> <<>>, yfArg |-> <<>>, yfRaw |-> <<>>, yfOut |-> <<>>, via |-> "none",
   result |-> <<>>]

\* Fields of a call.  no: the number of the call (1 for the first one started).
\* The code's locals: symbols, results (the Map, raw symbol ->
\* record), uncached, quotes and series (td symbol -> element / closes), result
\* (the array returned).  Bookkeeping for the properties: hitExp (key -> expireAt
\* of the entry a hit read), tdArg and yfArg (<<>> or <<the symbols an adapter
\* was called with>>), tdOut (<<>> or <<the records the primary returned>>),
\* tdPrices (<<>> or <<the prices of those records>>), yfRaw (<<>> or <<the
\* secondary's batch answer>>), yfOut (<<>> or <<the records the secondary
\* returned>>), via (the source of `fetched`: "td", "yf", or "none" when every
\* symbol was a hit).  Once the secondary has returned, quotes, series and tdOut
\* of the primary are dropped: its records are discarded by the code.

\* JSON.stringify of a record, and JSON.parse of a row's data (<<>>: it throws)
\* a number in JSON text: NaN and the infinities are written as null
JsonNull == -2
JsonNumber(x) == IF x = NaN THEN JsonNull ELSE x
Serialize(rec) ==
  <<"json",
    [rec EXCEPT !.price = JsonNumber(@), !.prevClose = JsonNumber(@), !.change = JsonNumber(@),
                !.ma50 = JsonNumber(@), !.ma200 = JsonNumber(@), !.rsi = JsonNumber(@),
                !.beta = JsonNumber(@), !.volatility30d = JsonNumber(@),
                !.sparkline = [i \in 1..Len(rec.sparkline) |-> JsonNumber(rec.sparkline[i])]]>>
Parse(data) == IF Len(data) = 2 /\ data[1] = "json" THEN <<data[2]>> ELSE <<>>

\* a record a former process flushed: a priced primary record of 2330.TW
StoredRecord ==
  TdRecord(C2330, [k \in {TdSym(C2330)} |-> [k |-> "ok", close |-> 101]],
           <<>>, <<>>)

InitialRows == { [k \in {StoredRecord.symbol} |-> Serialize(StoredRecord)] }

\* a runDailyUpdate execution that has not been requested
IdleRun ==
  [pc |-> "idle", no |-> 0, symbols |-> <<>>, i |-> 0, updated |-> 0, failed |-> 0,
   wake |-> 0, batches |-> <<>>, pauses |-> <<>>, flushes |-> <<>>]

\* Fields of a run.  The code's locals: symbols, i, updated, failed.  wake: the
\* due time of the pause's timer.  Bookkeeping: no (the runs this requester has
\* asked for), batches (one entry per batchGetFullData call: its symbols, the
\* cache misses among them, the times of call and return, whether it threw),
\* pauses (the times at which a pause began) and flushes (one entry per
\* flushCacheToDB call: the time of the call, how it ended).

\* a flushCacheToDB execution that has not been requested
IdleFlush == [pc |-> "idle", no |-> 0, todo |-> {}, n |-> 0, wrote |-> {}, end |-> "none",
              at |-> 0, before |-> <<>>]

\* Fields of a flush.  todo: the entries (pairs of symbol and JSON text) not yet
\* upserted; n: entries.length; wrote: the entries upserted; end: how it ended
\* ("ok", "empty": nothing to write, "nodb": getDb gave null, "threw": an insert
\* threw, caught); at: Date.now() of the call; before: the memory cache at the call.

\* the state before startScheduler is called
SchedulerOff ==
  /\ isRunning = FALSE
  /\ timers = {}
  /\ cb = [pc |-> "idle", fired |-> 0, armed |-> 0, last |-> "none", stopped |-> FALSE]
  /\ run = [r \in Runners |-> IdleRun]
  /\ flush = [f \in Flushers |-> IdleFlush]
  /\ restarts = 0
  /\ dbSrc = <<>>

\* no function is being applied on its own
NoPure == input = <<>> /\ output = <<>>

\* a checkAndNotify execution that has not been requested
IdleCheck ==
  [pc |-> "idle", alerts |-> <<>>, symbols |-> <<>>, priceMap |-> <<>>, i |-> 0,
   triggered |-> 0, marked |-> {}]

\* Fields of a check.  The code's locals: alerts (the active rows read at the
\* start, each with its id), symbols, priceMap, triggered; i: the position in
\* alerts of the alert whose markAlertTriggered is awaited.  Bookkeeping:
\* marked (the ids this execution has marked triggered).

\* no price alert exists and none is being checked
NoAlerts == alerts = <<>> /\ check = [c \in Callers |-> IdleCheck]

Init ==
  /\ SchedulerOff /\ NoPure /\ NoAlerts
  /\ now = 0 /\ ticks = 0 /\ starts = 0
  /\ hasKey \in BOOLEAN
  /\ cache = <<>>
  /\ bench = <<>>
  /\ yfAvail = <<>> /\ yfTimers = {}
  /\ slots = {"req1"}
  /\ call = [c \in Callers \cup Runners |-> IdleCall]
  /\ db \in InitialRows
  /\ loadState = "pending"
  /\ firstServed = [k \in Keys |-> <<>>]
  /\ liveOk = {} /\ dbKeys = {}

(* ------------------------------------------------------------------ *)
(* Aggregator: batchGetFullData                                        *)
(* ------------------------------------------------------------------ *)

\* (variant) the cache is read under the symbol as given, not its canonical form
RECURSIVE ReadLoopRawKey(_, _, _, _)
ReadLoopRawKey(symbols, i, acc, t) ==
  IF i > Len(symbols) THEN acc
  ELSE LET s == symbols[i]
           g == TTLCache_get(acc.store, s, t)
       IN ReadLoopRawKey(symbols, i + 1,
            IF g.value # <<>>
              THEN [store |-> g.store, uncached |-> acc.uncached,
                    results |-> [x \in DOMAIN acc.results \cup {s} |->
                                   IF x = s THEN g.value[1] ELSE acc.results[x]]]
              ELSE [store |-> g.store, uncached |-> Append(acc.uncached, s),
                    results |-> acc.results],
            t)

\* the loop over symbols: cache hits go to results, misses to uncached
RECURSIVE ReadLoop(_, _, _, _)
ReadLoop(symbols, i, acc, t) ==
  IF i > Len(symbols) THEN acc
  ELSE LET s == symbols[i]
           g == TTLCache_get(acc.store, Canon(s), t)
       IN ReadLoop(symbols, i + 1,
            IF g.value # <<>>
              THEN [store |-> g.store, uncached |-> acc.uncached,
                    results |-> [x \in DOMAIN acc.results \cup {s} |->
                                   IF x = s THEN g.value[1] ELSE acc.results[x]]]
              ELSE [store |-> g.store, uncached |-> Append(acc.uncached, s),
                    results |-> acc.results],
            t)

\* the key of results.set: uncached[fetched.indexOf(d)] || d.symbol; indexOf
\* finds the object itself, so the index is the record's own position
ResultKey(uncached, i, d) == IF uncached[i] # <<>> THEN uncached[i] ELSE d.symbol

\* (variant) the records are cached with the TTL of rehydrated entries
RECURSIVE WriteLoopLongTtl(_, _, _, _, _)
WriteLoopLongTtl(fetched, uncached, i, acc, t) ==
  IF i > Len(fetched) THEN acc
  ELSE LET d == fetched[i]
           key == ResultKey(uncached, i, d)
       IN WriteLoopLongTtl(fetched, uncached, i + 1,
            [store |-> TTLCache_set(acc.store, d.symbol, d, TTL_DB_CACHE, t),
             results |-> [x \in DOMAIN acc.results \cup {key} |->
                            IF x = key THEN d ELSE acc.results[x]]],
            t)

\* (variant) a record is cached under the symbol as it was asked for as well
RECURSIVE WriteLoopAlsoRaw(_, _, _, _, _)
WriteLoopAlsoRaw(fetched, uncached, i, acc, t) ==
  IF i > Len(fetched) THEN acc
  ELSE LET d == fetched[i]
           key == ResultKey(uncached, i, d)
       IN WriteLoopAlsoRaw(fetched, uncached, i + 1,
            [store |-> TTLCache_set(TTLCache_set(acc.store, d.symbol, d, TTL_FULL, t),
                                    key, d, TTL_FULL, t),
             results |-> [x \in DOMAIN acc.results \cup {key} |->
                            IF x = key THEN d ELSE acc.results[x]]],
            t)

\* for (const d of fetched) { cache.set(...); results.set(...) }
RECURSIVE WriteLoop(_, _, _, _, _)
WriteLoop(fetched, uncached, i, acc, t) ==
  IF i > Len(fetched) THEN acc
  ELSE LET d == fetched[i]
           key == ResultKey(uncached, i, d)
       IN WriteLoop(fetched, uncached, i + 1,
            [store |-> TTLCache_set(acc.store, d.symbol, d, TTL_FULL, t),
             results |-> [x \in DOMAIN acc.results \cup {key} |->
                            IF x = key THEN d ELSE acc.results[x]]],
            t)

\* symbols.map(s => results.get(s) || cache.get(...) || createFallbackData(s));
\* results holds every symbol of the call, so the first disjunct always answers
Assemble(symbols, results, store, t) ==
  [i \in 1..Len(symbols) |->
     IF symbols[i] \in DOMAIN results THEN results[symbols[i]]
     ELSE IF TTLCache_get(store, Canon(symbols[i]), t).value # <<>>
       THEN TTLCache_get(store, Canon(symbols[i]), t).value[1]
     ELSE FallbackTab[symbols[i]]]

\* (variant) fetched.some(d => d.price === 0)
AllZeroAsSome(fetched) == \E i \in 1..Len(fetched) : fetched[i].price = 0

AllZero(fetched) == \A i \in 1..Len(fetched) : fetched[i].price = 0

\* ghost: the serve of key k by a finished call is the record of its last
\* position with that key, with the expiry of the entry it was read from or
\* written to
LastPos(symbols, k) ==
  CHOOSE i \in 1..Len(symbols) :
    /\ Canon(symbols[i]) = k
    /\ \A j \in 1..Len(symbols) : Canon(symbols[j]) = k => j <= i

ServedKeys(symbols) == {Canon(symbols[i]) : i \in 1..Len(symbols)}

NoteServes(fs, cr, store, t) ==
  [k \in Keys |->
     IF k \notin ServedKeys(cr.symbols) THEN fs[k]
     ELSE IF fs[k] # <<>> /\ t <= fs[k][1].exp THEN fs[k]
     ELSE <<[rec |-> cr.result[LastPos(cr.symbols, k)],
             exp |-> IF k \in DOMAIN cr.hitExp THEN cr.hitExp[k] ELSE store[k].expireAt]>>]

\* the tail of batchGetFullData once `fetched` is known: write, assemble, return
Finish(cr, fetched, store, t, via) ==
  LET w == WriteLoop(fetched, cr.uncached, 1, [store |-> store, results |-> cr.results], t)
  IN [cr |-> [cr EXCEPT !.pc = "done", !.results = <<>>, !.via = via,
                        !.yfOut = IF via = "yf" THEN <<fetched>> ELSE <<>>,
                        !.quotes = IF via = "td" THEN cr.quotes ELSE <<>>,
                        !.series = IF via = "td" THEN cr.series ELSE <<>>,
                        !.tdOut = IF via = "td" THEN cr.tdOut ELSE <<>>,
                        !.result = Assemble(cr.symbols, w.results, w.store, t)],
      store |-> w.store,
      written |-> fetched]

\* fetchFromYfinance up to its first network call: checkYfinance answers from
\* _yfinanceAvailable when it is set, and probes /health when it is null
EnterYf(cr, store, avail, t) ==
  LET cr1 == [cr EXCEPT !.yfArg = <<cr.uncached>>]
  IN IF avail = <<>> THEN [cr |-> [cr1 EXCEPT !.pc = "health"], store |-> store, written |-> <<>>]
     ELSE IF avail[1] THEN [cr |-> [cr1 EXCEPT !.pc = "yf"], store |-> store, written |-> <<>>]
     ELSE Finish(cr1, MapFallback(cr.uncached), store, t, "yf")

\* (variant) the primary's records are final, whatever their prices
AfterPrimaryNoFallthrough(cr, fetched, store, avail, t) ==
  Finish([cr EXCEPT !.tdOut = <<fetched>>,
                    !.tdPrices = <<[i \in 1..Len(fetched) |-> fetched[i].price]>>],
         fetched, store, t, "td")

\* batchGetFullData after fetchFromTwelveData returned `fetched`
AfterPrimary(cr, fetched, store, avail, t) ==
  LET cr1 == [cr EXCEPT !.tdOut = <<fetched>>,
                        !.tdPrices = <<[i \in 1..Len(fetched) |-> fetched[i].price]>>]
  IN IF AllZero(fetched) THEN EnterYf(cr1, store, avail, t)
     ELSE Finish(cr1, fetched, store, t, "td")

\* ghost updates shared by the actions that may finish a call
Ghosts(c, out) ==
  /\ firstServed' = IF out.cr.pc = "done"
                      THEN NoteServes(firstServed, out.cr, out.store, now)
                      ELSE firstServed
  /\ liveOk' = liveOk \cup {out.written[i].symbol :
                             i \in {j \in 1..Len(out.written) : out.written[j].price > 0}}
  /\ dbKeys' = (dbKeys \cap DOMAIN out.store)
                  \ {out.written[i].symbol : i \in 1..Len(out.written)}

\* the first request of a behaviour with one slot passes any batch
BatchesAt(sl, n) ==
  IF sl = {"req1"} THEN (IF n = 0 THEN Batches ELSE NarrowBatches) ELSE ConcBatches

\* a new call takes the first free request slot
SlotBefore(o, c) == o = "req1" /\ c = "req2"

\* batchGetFullData(symbols) up to its first await, or to its return when
\* nothing is awaited
CallStart(c, symbols) ==
  /\ starts' = starts + 1
  /\ LET r == ReadLoop(symbols, 1, [store |-> cache, uncached |-> <<>>, results |-> <<>>], now)
         cr == [IdleCall EXCEPT !.no = starts + 1, !.symbols = symbols,
                                !.results = r.results,
                                !.uncached = r.uncached,
                                !.hitExp = [k \in {Canon(x) : x \in DOMAIN r.results}
                                              |-> cache[k].expireAt]]
         out == IF symbols = <<>> THEN [cr |-> [cr EXCEPT !.pc = "done"], store |-> cache,
                                         written |-> <<>>]
                ELSE IF r.uncached = <<>> THEN Finish(cr, <<>>, r.store, now, "none")
                ELSE IF hasKey
                  THEN [cr |-> [cr EXCEPT !.pc = "td", !.tdArg = <<r.uncached>>],
                        store |-> r.store, written |-> <<>>]
                ELSE EnterYf(cr, r.store, yfAvail, now)
     IN /\ call' = [call EXCEPT ![c] = out.cr]
        /\ cache' = out.store
        /\ Ghosts(c, out)
  /\ UNCHANGED <<now, ticks, hasKey, bench, yfAvail, yfTimers, slots, db, loadState>>

\* a request calls batchGetFullData(symbols)
BatchStart(c, symbols) ==
  /\ c \in slots
  /\ symbols \in BatchesAt(slots, starts)
  /\ call[c].pc \in {"idle", "done", "threw"}
  /\ \A o \in Callers : SlotBefore(o, c) => call[o].pc \notin {"idle", "done", "threw"}
  /\ starts < MaxStarts
  /\ CallStart(c, symbols)
  /\ UNCHANGED <<schedVars, pureVars, alertVars>>

\* symbols.map(toTwelveDataSymbol)
TdSyms(symbols) == [i \in 1..Len(symbols) |-> TdSym(symbols[i])]

\* the quote and time-series answers of fetchFromTwelveData arrive
TdRespond(c) ==
  /\ call[c].pc = "td"
  /\ \E qresp \in QuoteResponses(TdSyms(call[c].uncached)), tsresp \in StockSeriesResponses(TdSyms(call[c].uncached)) :
     LET cr == call[c]
         tdSyms == TdSyms(cr.uncached)
         quoteRaw == tdFetch(hasKey, qresp)
         tsRaw == tdFetch(hasKey, tsresp)
     IN LET out ==
                 IF quoteRaw = <<>>
                   THEN AfterPrimary(cr, MapFallback(cr.uncached), cache, yfAvail, now)
                 ELSE IF SeriesThrows(tsRaw)
                   THEN [cr |-> [cr EXCEPT !.pc = "threw"], store |-> cache, written |-> <<>>]
                 ELSE LET cr1 == [cr EXCEPT !.quotes = ParseQuotes(tdSyms, quoteRaw[1]),
                                            !.series = ParseSeries(tdSyms, tsRaw)]
                      IN IF BenchFresh(bench, now)
                           THEN AfterPrimary(cr1,
                                  TdMap(cr.uncached, cr1.quotes, cr1.series, bench[1]),
                                  cache, yfAvail, now)
                           ELSE [cr |-> [cr1 EXCEPT !.pc = "bench"], store |-> cache,
                                 written |-> <<>>]
           IN /\ call' = [call EXCEPT ![c] = out.cr]
              /\ cache' = out.store
              /\ Ghosts(c, out)
  /\ UNCHANGED <<now, ticks, starts, hasKey, bench, yfAvail, yfTimers, slots, db, loadState>>
  /\ UNCHANGED <<schedVars, pureVars, alertVars>>

\* the two benchmark series of getBenchCloses arrive
BenchRespond(c) ==
  /\ call[c].pc = "bench"
  /\ \E spy \in SeriesResponses, tw50 \in SeriesResponses :
     spy = tw50 /\
     LET cr == call[c]
         spyRaw == tdFetch(hasKey, spy)
         twRaw == tdFetch(hasKey, tw50)
     IN IF BenchThrows(spyRaw, twRaw)
          THEN /\ call' = [call EXCEPT ![c] = [cr EXCEPT !.pc = "threw"]]
               /\ UNCHANGED <<cache, bench, firstServed, liveOk, dbKeys>>
          ELSE LET b == [us |-> BenchOf(spyRaw), tw |-> BenchOf(twRaw), at |-> now]
                   out == AfterPrimary(cr, TdMap(cr.uncached, cr.quotes, cr.series, b),
                                       cache, yfAvail, now)
               IN /\ bench' = <<b>>
                  /\ call' = [call EXCEPT ![c] = out.cr]
                  /\ cache' = out.store
                  /\ Ghosts(c, out)
  /\ UNCHANGED <<now, ticks, starts, hasKey, yfAvail, yfTimers, slots, db, loadState>>
  /\ UNCHANGED <<schedVars, pureVars, alertVars>>

\* the /health probe of checkYfinance answers (ok) or fails
HealthRespond(c, ok) ==
  /\ call[c].pc = "health"
  /\ yfAvail' = <<ok>>
  /\ yfTimers' = yfTimers \cup {now + YF_RESET_MS}
  /\ LET cr == call[c]
         out == IF ok THEN [cr |-> [cr EXCEPT !.pc = "yf"], store |-> cache, written |-> <<>>]
                ELSE Finish(cr, MapFallback(cr.uncached), cache, now, "yf")
     IN /\ call' = [call EXCEPT ![c] = out.cr]
        /\ cache' = out.store
        /\ Ghosts(c, out)
  /\ UNCHANGED <<now, ticks, starts, hasKey, bench, slots, db, loadState>>
  /\ UNCHANGED <<schedVars, pureVars, alertVars>>

\* setTimeout(() => { _yfinanceAvailable = null }, 300_000) fires
YfReset(d) ==
  /\ d \in yfTimers /\ now >= d
  /\ yfAvail' = <<>>
  /\ yfTimers' = yfTimers \ {d}
  /\ UNCHANGED <<now, ticks, starts, hasKey, cache, bench, slots, call, db, loadState,
                 firstServed, liveOk, dbKeys, schedVars, pureVars, alertVars>>

\* (variant) a batch request that timed out is sent again
YfRespondRetry(c) ==
  /\ call[c].pc = "yf"
  /\ \E resp \in YfResponsesFor(call[c].uncached) :
     LET cr == [call[c] EXCEPT !.yfRaw = <<resp>>]
         out == IF resp.kind = "neterr" /\ call[c].yfRaw = <<>>
                  THEN [cr |-> cr, store |-> cache, written |-> <<>>]
                  ELSE Finish(cr, YfMap(cr.uncached, resp), cache, now, "yf")
     IN /\ call' = [call EXCEPT ![c] = out.cr]
        /\ cache' = out.store
        /\ Ghosts(c, out)
  /\ UNCHANGED <<now, ticks, starts, hasKey, bench, yfAvail, yfTimers, slots, db, loadState>>
  /\ UNCHANGED <<schedVars, pureVars, alertVars>>

\* the /batch_full answer of fetchFromYfinance arrives
YfRespond(c) ==
  /\ call[c].pc = "yf"
  /\ \E resp \in YfResponsesFor(call[c].uncached) :
     LET cr == [call[c] EXCEPT !.yfRaw = <<resp>>]
         out == Finish(cr, YfMap(cr.uncached, resp), cache, now, "yf")
     IN /\ call' = [call EXCEPT ![c] = out.cr]
        /\ cache' = out.store
        /\ Ghosts(c, out)
  /\ UNCHANGED <<now, ticks, starts, hasKey, bench, yfAvail, yfTimers, slots, db, loadState>>
  /\ UNCHANGED <<schedVars, pureVars, alertVars>>

(* ------------------------------------------------------------------ *)
(* Startup load of the durable cache                                   *)
(* ------------------------------------------------------------------ *)

\* for (const r of rows) { try { ...cache.set(`full:${d.symbol}`, d, TTL_DB_CACHE) } catch {} }
RECURSIVE LoadRows(_, _, _, _)
LoadRows(rows, todo, store, t) ==
  IF todo = {} THEN store
  ELSE LET k == CHOOSE x \in todo : TRUE
           d == Parse(rows[k])
       IN LoadRows(rows, todo \ {k},
                   IF d = <<>> THEN store
                   ELSE TTLCache_set(store, d[1].symbol, d[1], TTL_DB_CACHE, t),
                   t)

\* getStockCacheAll answers (ok) or throws: loadCacheFromDB finishes
LoadFinish(ok) ==
  /\ loadState = "pending"
  /\ loadState' = IF ok THEN "done" ELSE "failed"
  /\ cache' = IF ok THEN LoadRows(db, DOMAIN db, cache, now) ELSE cache
  /\ dbKeys' = IF ok THEN dbKeys \cup {Parse(db[k])[1].symbol :
                                        k \in {x \in DOMAIN db : Parse(db[x]) # <<>>}}
               ELSE dbKeys
  /\ UNCHANGED <<now, ticks, starts, hasKey, bench, yfAvail, yfTimers, slots, call, db,
                 firstServed, liveOk, schedVars, pureVars, alertVars>>

\* no call is between its start and its return
Quiet == \A c \in Callers \cup Runners : call[c].pc \in {"idle", "done", "threw"}

\* time passes: at any point when requests overlap, between two requests when
\* they come one at a time
Tick(d) ==
  /\ ticks < MaxTicks
  /\ Cardinality(slots) <= 1 => Quiet
  /\ ticks' = ticks + 1
  /\ now' = now + d
  /\ UNCHANGED <<starts, hasKey, cache, bench, yfAvail, yfTimers, slots, call, db, loadState,
                 firstServed, liveOk, dbKeys, schedVars, pureVars, alertVars>>

Next ==
  \/ \E c \in Callers, symbols \in Batches : BatchStart(c, symbols)
  \/ \E c \in Callers : TdRespond(c)
  \/ \E c \in Callers : BenchRespond(c)
  \/ \E c \in Callers, ok \in BOOLEAN : HealthRespond(c, ok)
  \/ \E d \in yfTimers : YfReset(d)
  \/ \E c \in Callers : YfRespond(c)
  \/ \E ok \in BOOLEAN : LoadFinish(ok)
  \/ \E d \in TickSteps : Tick(d)

Spec == Init /\ [][Next]_vars

\* overlapping requests once the startup load is over
InitConc ==
  /\ SchedulerOff /\ NoPure /\ NoAlerts
  /\ now = 0 /\ ticks = 0 /\ starts = 0
  /\ hasKey \in BOOLEAN
  /\ cache = <<>>
  /\ bench = <<>>
  /\ yfAvail = <<>> /\ yfTimers = {}
  /\ slots = Callers
  /\ call = [c \in Callers \cup Runners |-> IdleCall]
  /\ db = <<>>
  /\ loadState = "done"
  /\ firstServed = [k \in Keys |-> <<>>]
  /\ liveOk = {} /\ dbKeys = {}

NextConc ==
  \/ \E c \in Callers, symbols \in ConcBatches : BatchStart(c, symbols)
  \/ \E c \in Callers : TdRespond(c)
  \/ \E c \in Callers : BenchRespond(c)
  \/ \E c \in Callers, ok \in BOOLEAN : HealthRespond(c, ok)
  \/ \E d \in yfTimers : YfReset(d)
  \/ \E c \in Callers : YfRespond(c)
  \/ \E d \in TickSteps : Tick(d)

SpecConc == InitConc /\ [][NextConc]_vars

(* ------------------------------------------------------------------ *)
(* Scheduler: msUntilNext, runDailyUpdate, startScheduler              *)
(* (server/scheduler.ts) and the durable flush                         *)
(* ------------------------------------------------------------------ *)

\* The local wall clock: now = 0 is a local midnight and every day has 24 hours.
\* next.setHours(hour, minute, 0, 0); if (next <= now) next.setDate(next.getDate() + 1)
msUntilNext(hour, minute, t) ==
  LET next == (t - (t % DAY_MS)) + hour * HOUR_MS + minute * MINUTE_MS
  IN IF next <= t THEN (next + DAY_MS) - t ELSE next - t

\* scheduleNext: _schedulerTimer = setTimeout(callback, msUntilNext(6, 0))
\* (how: what the callback met, kept for the properties)
scheduleNext(how) ==
  /\ timers' = timers \cup {now + msUntilNext(DAILY_UPDATE_HOUR, DAILY_UPDATE_MIN, now)}
  /\ cb' = [cb EXCEPT !.pc = "idle", !.armed = @ + 1, !.last = how]

\* symbols.slice(i, i + BATCH_SIZE)
Slice(symbols, i) == SubSeq(symbols, i + 1, Min(i + BATCH_SIZE, Len(symbols)))

\* the bookkeeping entry of a batch that has just been called
BatchNote(batch, cr, t) ==
  [symbols |-> batch, misses |-> cr.uncached, at |-> t, end |-> t, threw |-> FALSE]

\* (variant) a run request is accepted whatever the flag says
RunCallNoFlag(r, symbols) ==
  /\ isRunning' = TRUE
  /\ IF symbols = <<>>
       THEN /\ run' = [run EXCEPT ![r] = [IdleRun EXCEPT !.pc = "toflush", !.no = run[r].no + 1,
                                                          !.symbols = symbols]]
            /\ UNCHANGED baseVars
       ELSE /\ CallStart(r, Slice(symbols, 0))
            /\ run' = [run EXCEPT ![r] =
                         [IdleRun EXCEPT !.pc = "batch", !.no = run[r].no + 1,
                                         !.symbols = symbols,
                                         !.batches = <<BatchNote(Slice(symbols, 0), call'[r], now)>>]]

\* runDailyUpdate(symbols) up to its first await, or to its return when the
\* request is dropped
RunCall(r, symbols) ==
  IF isRunning
    THEN /\ run' = [run EXCEPT ![r] = [IdleRun EXCEPT !.pc = "dropped", !.no = run[r].no + 1,
                                                       !.symbols = symbols]]
         /\ UNCHANGED <<isRunning, baseVars>>
    ELSE /\ isRunning' = TRUE
         /\ IF symbols = <<>>
              THEN /\ run' = [run EXCEPT ![r] = [IdleRun EXCEPT !.pc = "toflush",
                                                                 !.no = run[r].no + 1,
                                                                 !.symbols = symbols]]
                   /\ UNCHANGED baseVars
              ELSE /\ CallStart(r, Slice(symbols, 0))
                   /\ run' = [run EXCEPT ![r] =
                                [IdleRun EXCEPT !.pc = "batch", !.no = run[r].no + 1,
                                                !.symbols = symbols,
                                                !.batches = <<BatchNote(Slice(symbols, 0),
                                                                        call'[r], now)>>]]

\* stock.forceRefresh: a client asks for runDailyUpdate(input.symbols)
ForceRefresh(symbols) ==
  /\ run["manual"].pc = "idle"
  /\ run["manual"].no < MaxRuns
  /\ RunCall("manual", symbols)
  /\ UNCHANGED <<timers, cb, flush, restarts, dbSrc, pureVars, alertVars>>

\* stock.forceRefresh returns the counts of its run to the client
ForceRefreshReturn ==
  /\ run["manual"].pc \in {"done", "dropped"}
  /\ run' = [run EXCEPT !["manual"] = [IdleRun EXCEPT !.no = run["manual"].no]]
  /\ UNCHANGED <<baseVars, isRunning, timers, cb, flush, restarts, dbSrc, pureVars, alertVars>>

\* (variant) updated counts the records priced above 100
PricedOverPar(result) == Cardinality({i \in 1..Len(result) : result[i].price > 100})

\* the number of records of a result with price > 0 / with price = 0
Priced(result) == Cardinality({i \in 1..Len(result) : result[i].price > 0})
Unpriced(result) == Cardinality({i \in 1..Len(result) : result[i].price = 0})

\* (variant) a pause follows every batch, the last one too
MoreBatchesAlways(i, n) == TRUE

\* if (i + BATCH_SIZE < symbols.length)
MoreBatches(i, n) == i + BATCH_SIZE < n

\* the awaited batchGetFullData returned or threw: the counts, then the pause
\* or the end of the loop
RunAfterBatch(r) ==
  /\ run[r].pc = "batch"
  /\ call[r].pc \in {"done", "threw"}
  /\ LET rr == run[r]
         batch == Slice(rr.symbols, rr.i)
         threw == call[r].pc = "threw"
         more == MoreBatches(rr.i, Len(rr.symbols))
         k == Len(rr.batches)
     IN run' = [run EXCEPT ![r] =
                  [rr EXCEPT !.updated = IF threw THEN @ ELSE @ + Priced(call[r].result),
                             !.failed = IF threw THEN @ + Len(batch)
                                        ELSE @ + Unpriced(call[r].result),
                             !.batches = [rr.batches EXCEPT ![k].end = now, ![k].threw = threw],
                             !.pc = IF more THEN "pause" ELSE "toflush",
                             !.wake = IF more THEN now + PAUSE_MS ELSE @,
                             !.pauses = IF more THEN Append(@, now) ELSE @]]
  /\ call' = [call EXCEPT ![r] = IdleCall]
  /\ UNCHANGED <<now, ticks, starts, hasKey, cache, bench, yfAvail, yfTimers, slots, db,
                 loadState, firstServed, liveOk, dbKeys>>
  /\ UNCHANGED <<isRunning, timers, cb, flush, restarts, dbSrc, pureVars, alertVars>>

\* time passes until the pause's timer is due
PauseWait(r) ==
  /\ run[r].pc = "pause"
  /\ now < run[r].wake
  /\ now' = run[r].wake
  /\ UNCHANGED <<ticks, starts, hasKey, cache, bench, yfAvail, yfTimers, slots, call, db,
                 loadState, firstServed, liveOk, dbKeys, schedVars, pureVars, alertVars>>

\* await new Promise(r => setTimeout(r, 3000)) is over: the next batch is called
PauseEnd(r) ==
  /\ run[r].pc = "pause"
  /\ now >= run[r].wake
  /\ LET rr == run[r]
         i == rr.i + BATCH_SIZE
     IN /\ CallStart(r, Slice(rr.symbols, i))
        /\ run' = [run EXCEPT ![r] =
                     [rr EXCEPT !.pc = "batch", !.i = i,
                                !.batches = Append(@, BatchNote(Slice(rr.symbols, i),
                                                                call'[r], now))]]
  /\ UNCHANGED <<isRunning, timers, cb, flush, restarts, dbSrc, pureVars, alertVars>>

\* the entries flushCacheToDB collects: pairs of record symbol and JSON text
FlushEntries(store, t) ==
  {<<store[k].value.symbol, Serialize(store[k].value)>> :
     k \in {x \in DOMAIN store : store[x].expireAt > t}}

\* flushCacheToDB up to its first await, or to its return when no entry is unexpired
FlushBegin(f) ==
  LET entries == FlushEntries(cache, now)
  IN flush' = [flush EXCEPT ![f] =
                 [pc |-> IF entries = {} THEN "done" ELSE "writing",
                  no |-> flush[f].no + 1,
                  todo |-> entries, n |-> Cardinality(entries), wrote |-> {},
                  end |-> IF entries = {} THEN "empty" ELSE "none",
                  at |-> now, before |-> cache]]

\* the loop of runDailyUpdate is over: await flushCacheToDB()
RunFlush(r) ==
  /\ run[r].pc = "toflush"
  /\ FlushBegin(r)
  /\ run' = [run EXCEPT ![r].pc = "flush",
                        ![r].flushes = Append(@, [at |-> now, end |-> "none", n |-> 0])]
  /\ UNCHANGED <<baseVars, isRunning, timers, cb, restarts, dbSrc, pureVars, alertVars>>

\* stock.flushCache: a client asks for flushCacheToDB()
FlushCall ==
  /\ flush["endpoint"].pc \in {"idle", "done"}
  /\ flush["endpoint"].no < MaxFlushes
  /\ FlushBegin("endpoint")
  /\ UNCHANGED <<baseVars, isRunning, timers, cb, run, restarts, dbSrc, pureVars, alertVars>>

\* db.insert(stockCache).values(...).onDuplicateKeyUpdate(...): one row per symbol
Upsert(rows, symbol, data) ==
  [k \in DOMAIN rows \cup {symbol} |-> IF k = symbol THEN data ELSE rows[k]]

\* (variant) the memory entries are dropped once they are written
FlushKeepsDrop(store, entries) == <<>>

\* what flushCacheToDB does to the memory cache: nothing
FlushKeeps(store, entries) == store

\* batchUpsertStockCache goes on: getDb gives null (nothing is written, no
\* error), or the next insert succeeds, or it throws (caught by flushCacheToDB)
FlushWrite(f, e, outcome) ==
  /\ flush[f].pc = "writing"
  /\ e \in flush[f].todo
  /\ outcome = "nodb" => flush[f].wrote = {}
  /\ LET fl == flush[f]
         last == fl.todo = {e}
     IN /\ flush' = [flush EXCEPT ![f] =
                       IF outcome = "ok"
                         THEN [fl EXCEPT !.todo = @ \ {e}, !.wrote = @ \cup {e},
                                         !.pc = IF last THEN "done" ELSE "writing",
                                         !.end = IF last THEN "ok" ELSE "none"]
                         ELSE [fl EXCEPT !.pc = "done", !.end = outcome]]
        /\ db' = IF outcome = "ok" THEN Upsert(db, e[1], e[2]) ELSE db
        /\ dbSrc' = IF outcome = "ok"
                      THEN Upsert(dbSrc, e[1], fl.before[e[1]].value)
                      ELSE dbSrc
        /\ cache' = FlushKeeps(cache, fl.todo)
  /\ UNCHANGED <<now, ticks, starts, hasKey, bench, yfAvail, yfTimers, slots, call,
                 loadState, firstServed, liveOk, dbKeys>>
  /\ UNCHANGED <<isRunning, timers, cb, run, restarts, pureVars, alertVars>>

\* (variant) the flag is cleared only when the flush wrote its entries
ClearFlagOnSuccess(end) == end \notin {"ok", "empty", "nodb"}

\* finally { _isRunning = false }: the flag after the run, whatever its flush did
ClearFlag(end) == FALSE

\* the awaited flushCacheToDB returned: finally, return { updated, failed }
RunEnd(r) ==
  /\ run[r].pc = "flush"
  /\ flush[r].pc = "done"
  /\ isRunning' = ClearFlag(flush[r].end)
  /\ run' = [run EXCEPT ![r].pc = "done",
                        ![r].flushes[Len(run[r].flushes)].end = flush[r].end,
                        ![r].flushes[Len(run[r].flushes)].n = flush[r].n]
  /\ flush' = [flush EXCEPT ![r] = [IdleFlush EXCEPT !.no = flush[r].no]]
  /\ UNCHANGED <<baseVars, timers, cb, restarts, dbSrc, pureVars, alertVars>>

\* no runDailyUpdate is between its call and its return
NoRun == \A r \in Runners : run[r].pc \in {"idle", "done", "dropped"}

\* time passes, between two runs, until the armed timer is due (the timer may
\* fire later than that, a run having begun)
SleepToTimer(d) ==
  /\ d \in timers
  /\ now < d
  /\ cb.fired < MaxFires
  /\ NoRun
  /\ now' = d
  /\ UNCHANGED <<ticks, starts, hasKey, cache, bench, yfAvail, yfTimers, slots, call, db,
                 loadState, firstServed, liveOk, dbKeys, schedVars, pureVars, alertVars>>

\* the timer of scheduleNext fires: the callback awaits getSymbolsFn()
TimerFire(d) ==
  /\ d \in timers
  /\ now >= d
  /\ cb.pc = "idle"
  /\ timers' = timers \ {d}
  /\ cb' = [cb EXCEPT !.pc = "enum", !.fired = @ + 1]
  /\ UNCHANGED <<baseVars, isRunning, run, flush, restarts, dbSrc, pureVars, alertVars>>

\* getSymbolsFn() threw, or gave no symbol: the callback goes on to scheduleNext()
EnumerationEmpty(threw) ==
  /\ cb.pc = "enum"
  /\ scheduleNext(IF threw THEN "threw" ELSE "empty")
  /\ UNCHANGED <<baseVars, isRunning, run, flush, restarts, dbSrc, pureVars, alertVars>>

\* getSymbolsFn() gave the tracked symbols: await runDailyUpdate(symbols)
EnumerationDone(symbols) ==
  /\ cb.pc = "enum"
  /\ symbols # <<>>
  /\ RunCall("timer", symbols)
  /\ cb' = [cb EXCEPT !.pc = "run"]
  /\ UNCHANGED <<timers, flush, restarts, dbSrc, pureVars, alertVars>>

\* (variant) the callback re-arms the timer only after a run that was not dropped
RearmAfterRunOnly(pc) == pc = "done"

\* the callback calls scheduleNext() once runDailyUpdate has returned, dropped or not
Rearm(pc) == pc \in {"done", "dropped"}

\* the awaited runDailyUpdate returned: scheduleNext()
CallbackEnd ==
  /\ cb.pc = "run"
  /\ run["timer"].pc \in {"done", "dropped"}
  /\ LET rr == run["timer"]
         how == IF rr.pc = "dropped" THEN "dropped"
                ELSE IF rr.flushes[Len(rr.flushes)].end = "threw" THEN "flushfailed"
                ELSE IF \E k \in 1..Len(rr.batches) : rr.batches[k].threw THEN "batchfailed"
                ELSE "done"
     IN IF Rearm(rr.pc) THEN scheduleNext(how)
        ELSE /\ cb' = [cb EXCEPT !.pc = "idle", !.last = how] /\ UNCHANGED timers
  /\ run' = [run EXCEPT !["timer"] = [IdleRun EXCEPT !.no = run["timer"].no]]
  /\ UNCHANGED <<baseVars, isRunning, flush, restarts, dbSrc, pureVars, alertVars>>

\* the state once server.listen has called startScheduler and the startup load
\* is over (it gave the stored rows, or it failed): the timer is armed
InitSched ==
  /\ NoPure /\ NoAlerts
  /\ isRunning = FALSE
  /\ timers = {msUntilNext(DAILY_UPDATE_HOUR, DAILY_UPDATE_MIN, 0)}
  /\ cb = [pc |-> "idle", fired |-> 0, armed |-> 1, last |-> "none", stopped |-> FALSE]
  /\ run = [r \in Runners |-> IdleRun]
  /\ flush = [f \in Flushers |-> IdleFlush]
  /\ restarts = 0
  /\ now = 0 /\ ticks = 0 /\ starts = 0
  /\ hasKey \in BOOLEAN
  /\ db \in InitialRows
  /\ cache \in {<<>>, LoadRows(db, DOMAIN db, <<>>, 0)}
  /\ bench = <<>>
  /\ yfAvail = <<>> /\ yfTimers = {}
  /\ slots = {}
  /\ call = [c \in Callers \cup Runners |-> IdleCall]
  /\ dbSrc = [k \in DOMAIN db |-> StoredRecord]
  /\ loadState = "done"
  /\ firstServed = [k \in Keys |-> <<>>]
  /\ liveOk = {} /\ dbKeys = DOMAIN cache

NextSched ==
  \/ \E symbols \in ManualLists : ForceRefresh(symbols)
  \/ ForceRefreshReturn
  \/ \E r \in Runners : RunAfterBatch(r)
  \/ \E r \in Runners : PauseWait(r)
  \/ \E r \in Runners : PauseEnd(r)
  \/ \E r \in Runners : RunFlush(r)
  \/ \E f \in Flushers : \E e \in flush[f].todo, outcome \in {"ok", "nodb", "threw"} :
       FlushWrite(f, e, outcome)
  \/ \E r \in Runners : RunEnd(r)
  \/ \E d \in timers : SleepToTimer(d)
  \/ \E d \in timers : TimerFire(d)
  \/ \E threw \in BOOLEAN : EnumerationEmpty(threw)
  \/ \E symbols \in TrackedLists : EnumerationDone(symbols)
  \/ CallbackEnd
  \/ \E r \in Runners : TdRespond(r)
  \/ \E r \in Runners : BenchRespond(r)
  \/ \E r \in Runners, ok \in BOOLEAN : HealthRespond(r, ok)
  \/ \E d \in yfTimers : YfReset(d)
  \/ \E r \in Runners : YfRespond(r)

SpecSched == InitSched /\ [][NextSched]_vars

\* a call of r's run is waiting for a provider's answer
Awaiting(r) == call[r].pc \in {"td", "bench", "health", "yf"}

\* r's run is waiting for the timer of a pause that is due
PauseDue(r) == run[r].pc = "pause" /\ now >= run[r].wake

\* the continuations of the event loop, the store's answers, timers that are due
Continue ==
  \/ ForceRefreshReturn
  \/ \E r \in Runners : RunAfterBatch(r)
  \/ \E r \in Runners : PauseWait(r)
  \/ \E r \in Runners : RunFlush(r)
  \/ \E f \in Flushers : \E e \in flush[f].todo, outcome \in {"ok", "nodb", "threw"} :
       FlushWrite(f, e, outcome)
  \/ \E r \in Runners : RunEnd(r)
  \/ \E d \in timers : TimerFire(d)
  \/ \E threw \in BOOLEAN : EnumerationEmpty(threw)
  \/ \E symbols \in TrackedLists : EnumerationDone(symbols)
  \/ CallbackEnd

\* The scheduler under fairness: what is ready to go on goes on; no call waits
\* for a provider for ever (every fetch carries AbortSignal.timeout) and no due
\* pause timer is left unfired.  That a client asks for a refresh is not assumed.
SpecSchedFair ==
  /\ InitSched /\ [][NextSched]_vars
  /\ WF_vars(Continue)
  /\ \A r \in Runners : []<>(~Awaiting(r)) /\ []<>(~PauseDue(r))

(* ------------------------------------------------------------------ *)
(* The durable cache across a restart of the process                   *)
(* ------------------------------------------------------------------ *)

\* the lists a client passes to stock.forceRefresh here
DurableLists == { <<AAPL>>, <<C2330>> }

\* the process ends and a new one starts: the module state is built anew (the
\* memory cache, the benchmark closes, the secondary service's availability,
\* the run flag), calls, runs and flushes in flight are gone, the startup load
\* is pending again; the rows of stock_cache stay
Restart ==
  /\ restarts < MaxRestarts
  /\ restarts' = restarts + 1
  /\ cache' = <<>> /\ bench' = <<>>
  /\ yfAvail' = <<>> /\ yfTimers' = {}
  /\ call' = [c \in Callers \cup Runners |-> IdleCall]
  /\ isRunning' = FALSE
  /\ run' = [r \in Runners |-> [IdleRun EXCEPT !.no = run[r].no]]
  /\ flush' = [f \in Flushers |-> [IdleFlush EXCEPT !.no = flush[f].no]]
  /\ loadState' = "pending"
  /\ firstServed' = [k \in Keys |-> <<>>]
  /\ liveOk' = {} /\ dbKeys' = {}
  /\ UNCHANGED <<now, ticks, starts, hasKey, slots, db, timers, cb, dbSrc, pureVars, alertVars>>

\* a process that has just started, its startup load pending, no timer armed
InitDurable ==
  /\ SchedulerOff /\ NoPure /\ NoAlerts
  /\ now = 0 /\ ticks = 0 /\ starts = 0
  /\ hasKey \in BOOLEAN
  /\ cache = <<>>
  /\ bench = <<>>
  /\ yfAvail = <<>> /\ yfTimers = {}
  /\ slots = {}
  /\ call = [c \in Callers \cup Runners |-> IdleCall]
  /\ db \in InitialRows
  /\ loadState = "pending"
  /\ firstServed = [k \in Keys |-> <<>>]
  /\ liveOk = {} /\ dbKeys = {}

NextDurable ==
  \/ \E ok \in BOOLEAN : LoadFinish(ok)
  \/ \E symbols \in DurableLists : ForceRefresh(symbols)
  \/ ForceRefreshReturn
  \/ RunAfterBatch("manual")
  \/ RunFlush("manual")
  \/ FlushCall
  \/ \E f \in Flushers : \E e \in flush[f].todo, outcome \in {"ok", "nodb", "threw"} :
       FlushWrite(f, e, outcome)
  \/ RunEnd("manual")
  \/ TdRespond("manual")
  \/ BenchRespond("manual")
  \/ \E ok \in BOOLEAN : HealthRespond("manual", ok)
  \/ \E d \in yfTimers : YfReset(d)
  \/ YfRespond("manual")
  \/ \E d \in TickSteps : Tick(d)
  \/ Restart

SpecDurable == InitDurable /\ [][NextDurable]_vars

(* ------------------------------------------------------------------ *)
(* stopScheduler                                                       *)
(* ------------------------------------------------------------------ *)

\* stopScheduler(): if (_schedulerTimer) { clearTimeout(_schedulerTimer);
\* _schedulerTimer = null }.  _schedulerTimer is the timer scheduleNext armed
\* last, pending or already fired; cb.stopped records that the call returned
StopScheduler ==
  /\ ~cb.stopped
  /\ timers' = {}
  /\ cb' = [cb EXCEPT !.stopped = TRUE]
  /\ UNCHANGED <<baseVars, isRunning, run, flush, restarts, dbSrc, pureVars, alertVars>>

NextStop ==
  \/ StopScheduler
  \/ \E d \in timers : SleepToTimer(d)
  \/ \E d \in timers : TimerFire(d)
  \/ \E threw \in BOOLEAN : EnumerationEmpty(threw)
  \/ \E symbols \in TrackedLists : EnumerationDone(symbols)
  \/ CallbackEnd
  \/ RunAfterBatch("timer")
  \/ RunFlush("timer")
  \/ \E e \in flush["timer"].todo, outcome \in {"ok", "nodb", "threw"} :
       FlushWrite("timer", e, outcome)
  \/ RunEnd("timer")
  \/ TdRespond("timer")
  \/ BenchRespond("timer")
  \/ \E ok \in BOOLEAN : HealthRespond("timer", ok)
  \/ YfRespond("timer")

SpecStop == InitSched /\ [][NextStop]_vars

(* ------------------------------------------------------------------ *)
(* A run whose provider calls take their time                          *)
(* ------------------------------------------------------------------ *)

\* six symbols, two batches: a Taiwan ticker in its notations, then a US one
LongList == <<C2330, C2330TW, C2330, C2330TW, C2330, AAPL>>

\* time passes while a call of the run waits for a provider: the requests of
\* the primary carry AbortSignal.timeout(15000) each and follow one another
\* (quote, time_series, benchmark), the secondary's carries 60000
Latency(r) ==
  /\ Awaiting(r)
  /\ ticks < MaxTicks
  /\ ticks' = ticks + 1
  /\ now' = now + TTL_FULL
  /\ UNCHANGED <<starts, hasKey, cache, bench, yfAvail, yfTimers, slots, call, db, loadState,
                 firstServed, liveOk, dbKeys, schedVars, pureVars, alertVars>>

\* a process whose store is there and empty, its startup load over, the
\* scheduler's timer not yet due
InitLongRun ==
  /\ SchedulerOff /\ NoPure /\ NoAlerts
  /\ now = 0 /\ ticks = 0 /\ starts = 0
  /\ hasKey \in BOOLEAN
  /\ cache = <<>>
  /\ bench = <<>>
  /\ yfAvail = <<>> /\ yfTimers = {}
  /\ slots = {}
  /\ call = [c \in Callers \cup Runners |-> IdleCall]
  /\ db = <<>>
  /\ loadState = "done"
  /\ firstServed = [k \in Keys |-> <<>>]
  /\ liveOk = {} /\ dbKeys = {}

NextLongRun ==
  \/ ForceRefresh(LongList)
  \/ ForceRefreshReturn
  \/ RunAfterBatch("manual")
  \/ PauseWait("manual")
  \/ PauseEnd("manual")
  \/ RunFlush("manual")
  \/ \E e \in flush["manual"].todo, outcome \in {"ok", "nodb", "threw"} :
       FlushWrite("manual", e, outcome)
  \/ RunEnd("manual")
  \/ TdRespond("manual")
  \/ BenchRespond("manual")
  \/ \E ok \in BOOLEAN : HealthRespond("manual", ok)
  \/ YfRespond("manual")
  \/ Latency("manual")

SpecLongRun == InitLongRun /\ [][NextLongRun]_vars

(* ------------------------------------------------------------------ *)
(* Price alerts: priceAlert.create, toggle and checkAndNotify          *)
(* ------------------------------------------------------------------ *)

\* normalizeSymbol of the router
normalizeSymbol(symbol) ==
  LET upper == trim(toUpperCase(symbol))
      base == StripTwSuffix(upper)
  IN IF endsWith(upper, DotTW) \/ endsWith(upper, DotTWO) THEN upper
     ELSE IF IsTwCode(base) THEN base \o DotTW
     ELSE upper

\* Fields of a row of price_alerts: symbol, alertType, targetPrice, active,
\* triggered.  Bookkeeping: hits (the prices at which the alert was marked
\* triggered since it was created or last switched from inactive to active).

\* priceAlert.create on the table `rows`
createPriceAlert(rows, data) ==
  Append(rows, [symbol |-> normalizeSymbol(data.symbol), alertType |-> data.alertType,
                targetPrice |-> data.targetPrice, active |-> TRUE,
                triggered |-> FALSE, hits |-> <<>>])

\* the alerts clients create: one a price of 100 reaches from below, one it
\* does not reach from above, one on another symbol
AlertInputs ==
  { [symbol |-> C2330, alertType |-> "above", targetPrice |-> 100],
    [symbol |-> C2330, alertType |-> "below", targetPrice |-> 50],
    [symbol |-> AAPL, alertType |-> "below", targetPrice |-> 100] }

\* the tables of one alert, and of two alerts the first of them on the Taiwan
\* ticker
AlertTables ==
  LET one == {createPriceAlert(<<>>, x) : x \in AlertInputs}
  IN one \cup {createPriceAlert(rows, x) :
                 rows \in {r \in one : r[1].symbol = C2330TW}, x \in AlertInputs}

\* priceAlert.toggle
ToggleAlert(id, active) ==
  /\ id \in 1..Len(alerts)
  /\ alerts' = [alerts EXCEPT ![id].active = active,
                              ![id].hits = IF active /\ ~alerts[id].active THEN <<>> ELSE @]
  /\ UNCHANGED <<baseVars, schedVars, pureVars, check>>

\* getActivePriceAlerts: the rows whose active is true, in the order of their ids
ActiveAlerts(rows) ==
  SelectSeq([i \in 1..Len(rows) |->
               [id |-> i, symbol |-> rows[i].symbol, alertType |-> rows[i].alertType,
                targetPrice |-> rows[i].targetPrice]],
            LAMBDA a : rows[a.id].active)

\* Array.from(new Set(q))
RECURSIVE Unique(_)
Unique(q) ==
  IF q = <<>> THEN <<>>
  ELSE LET front == Unique(SubSeq(q, 1, Len(q) - 1))
       IN IF \E i \in 1..Len(front) : front[i] = q[Len(q)] THEN front
          ELSE Append(front, q[Len(q)])

\* batchGetQuotes after its batchGetFullData returned `result`
batchGetQuotes(result) ==
  [i \in 1..Len(result) |-> [symbol |-> result[i].symbol, price |-> result[i].price]]

\* quotes.forEach((q) => { priceMap[q.symbol] = q.price; })
PriceMap(quotes) ==
  [s \in {quotes[i].symbol : i \in 1..Len(quotes)} |->
     quotes[CHOOSE i \in 1..Len(quotes) :
              quotes[i].symbol = s /\ \A j \in (i + 1)..Len(quotes) : quotes[j].symbol # s].price]

\* the loop's test of one alert: not skipped, and the price has reached the
\* target (a comparison with NaN is false)
Hit(a, priceMap) ==
  /\ a.symbol \in DOMAIN priceMap
  /\ priceMap[a.symbol] # 0
  /\ priceMap[a.symbol] # NaN
  /\ IF a.alertType = "above" THEN priceMap[a.symbol] >= a.targetPrice
     ELSE priceMap[a.symbol] <= a.targetPrice

\* the position of the first alert from position i on that is hit, 0 if none
NextHit(as, priceMap, i) ==
  LET hits == {j \in i..Len(as) : Hit(as[j], priceMap)}
  IN IF hits = {} THEN 0 ELSE CHOOSE j \in hits : \A k \in hits : j <= k

\* checkAndNotify up to its await of batchGetQuotes, or to its return when no
\* alert is active
CheckStart(c) ==
  /\ c \in slots
  /\ check[c].pc \in {"idle", "done"}
  /\ call[c].pc \in {"idle", "done", "threw"}
  /\ \A o \in Callers : SlotBefore(o, c) => check[o].pc \notin {"idle", "done"}
  /\ starts < MaxStarts
  /\ LET active == ActiveAlerts(alerts)
         symbols == Unique([i \in 1..Len(active) |-> active[i].symbol])
     IN IF active = <<>>
          THEN /\ check' = [check EXCEPT ![c] = [IdleCheck EXCEPT !.pc = "done"]]
               /\ UNCHANGED baseVars
          ELSE /\ check' = [check EXCEPT ![c] = [IdleCheck EXCEPT !.pc = "quotes",
                                                                 !.alerts = active,
                                                                 !.symbols = symbols]]
               /\ CallStart(c, symbols)
  /\ UNCHANGED <<schedVars, pureVars, alerts>>

\* batchGetQuotes returned or threw: the price map, then the loop up to the
\* first markAlertTriggered it awaits, or to the end
CheckQuotes(c) ==
  /\ check[c].pc = "quotes"
  /\ call[c].pc \in {"done", "threw"}
  /\ LET ck == check[c]
         priceMap == IF call[c].pc = "done" THEN PriceMap(batchGetQuotes(call[c].result))
                     ELSE <<>>
         j == NextHit(ck.alerts, priceMap, 1)
     IN check' = [check EXCEPT ![c] =
                    IF j = 0 THEN [ck EXCEPT !.pc = "done", !.priceMap = priceMap]
                    ELSE [ck EXCEPT !.pc = "mark", !.priceMap = priceMap, !.i = j]]
  /\ UNCHANGED <<baseVars, schedVars, pureVars, alerts>>

\* the update of markAlertTriggered is done (ok) or throws; the loop goes on
\* to the next markAlertTriggered it awaits, or the handler returns
CheckMark(c, ok) ==
  /\ check[c].pc = "mark"
  /\ LET ck == check[c]
         a == ck.alerts[ck.i]
         j == NextHit(ck.alerts, ck.priceMap, ck.i + 1)
     IN IF ok
          THEN /\ alerts' = [alerts EXCEPT ![a.id].triggered = TRUE,
                                           ![a.id].active = FALSE,
                                           ![a.id].hits = Append(@, ck.priceMap[a.symbol])]
               /\ check' = [check EXCEPT ![c] =
                              [ck EXCEPT !.triggered = @ + 1, !.marked = @ \cup {a.id},
                                         !.i = j, !.pc = IF j = 0 THEN "done" ELSE "mark"]]
          ELSE /\ alerts' = alerts
               /\ check' = [check EXCEPT ![c] = [ck EXCEPT !.pc = "done"]]
  /\ UNCHANGED <<baseVars, schedVars, pureVars>>

NextAlerts ==
  \/ \E id \in 1..Len(alerts), active \in BOOLEAN : ToggleAlert(id, active)
  \/ \E c \in Callers : CheckStart(c)
  \/ \E c \in Callers : CheckQuotes(c)
  \/ \E c \in Callers, ok \in BOOLEAN : CheckMark(c, ok)
  \/ \E c \in Callers, ok \in BOOLEAN : HealthRespond(c, ok)
  \/ \E c \in Callers : YfRespond(c)

\* overlapping requests for checkAndNotify on a table of one or two alerts,
\* TWELVE_DATA_KEY not configured: the quotes are the secondary provider's
InitAlerts ==
  /\ SchedulerOff /\ NoPure
  /\ alerts \in AlertTables
  /\ check = [c \in Callers |-> IdleCheck]
  /\ now = 0 /\ ticks = 0 /\ starts = 0
  /\ hasKey = FALSE
  /\ cache = <<>>
  /\ bench = <<>>
  /\ yfAvail = <<>> /\ yfTimers = {}
  /\ slots = Callers
  /\ call = [c \in Callers \cup Runners |-> IdleCall]
  /\ db = <<>>
  /\ loadState = "done"
  /\ firstServed = [k \in Keys |-> <<>>]
  /\ liveOk = {} /\ dbKeys = {}

SpecAlerts == InitAlerts /\ [][NextAlerts]_vars

(* ------------------------------------------------------------------ *)
(* canonicalSymbol taken alone                                         *)
(* ------------------------------------------------------------------ *)

InitCanon ==
  /\ SchedulerOff /\ NoAlerts
  /\ input \in {<<x>> : x \in CanonInputs} /\ output = <<>>
  /\ now = 0 /\ ticks = 0 /\ starts = 0
  /\ hasKey = FALSE
  /\ cache = <<>>
  /\ bench = <<>>
  /\ yfAvail = <<>> /\ yfTimers = {}
  /\ slots = {}
  /\ call = [c \in Callers \cup Runners |-> IdleCall]
  /\ db = <<>>
  /\ loadState = "done"
  /\ firstServed = [k \in Keys |-> <<>>]
  /\ liveOk = {} /\ dbKeys = {}

\* canonicalSymbol is applied to the input, then to its own result
ApplyCanonical ==
  /\ Len(output) < MaxApply
  /\ output' = Append(output, canonicalSymbol(IF output = <<>> THEN input[1]
                                               ELSE output[Len(output)]))
  /\ UNCHANGED <<now, ticks, starts, hasKey, cache, bench, yfAvail, yfTimers, slots, call, db,
                 loadState, firstServed, liveOk, dbKeys, schedVars, input, alertVars>>

NextCanon == ApplyCanonical

SpecCanon == InitCanon /\ [][NextCanon]_vars

(* ------------------------------------------------------------------ *)
(* The technical calculations taken alone                              *)
(* ------------------------------------------------------------------ *)

\* Close histories, latest first, as `values.map(v => +v.close)` hands them
\* to the calculations: every close is a number, zero included
Flat(n, v) == [i \in 1..n |-> v]
Zig(n) == [i \in 1..n |-> IF i % 2 = 1 THEN 4 ELSE 2]
Steps(n) == [i \in 1..n |-> IF i % 4 = 1 THEN 1 ELSE IF i % 4 = 3 THEN 4 ELSE 2]
Gaps(n) == [i \in 1..n |-> IF i % 2 = 1 THEN 100 ELSE 0]
Recent(n, k) == [i \in 1..n |-> IF i > k THEN 0 ELSE IF i % 2 = 1 THEN 4 ELSE 2]
Doubling(n) == [i \in 1..n |-> 2 ^ (n - i)]
RsiExample == <<110, 108, 107, 105, 100, 103, 99, 98, 97, 95, 94, 92, 90, 88, 85>>

SmallCloses == UNION {[1..n -> {0, 1, 3}] : n \in 0..3}
HistoryLens == {4, 5, 6, 10, 11, 14, 15, 16, 30, 31, 32, 49, 50, 51, 199, 200, 201}
BetaLens == {10, 11, 12, 19, 20, 21, 61, 62}

Shaped(n) == {Flat(n, 0), Flat(n, 100), Zig(n), Steps(n), Gaps(n),
              Recent(n, 5), Recent(n, 6)}

Histories == SmallCloses \cup {RsiExample} \cup UNION {Shaped(n) : n \in HistoryLens}
BetaHistories == UNION {Shaped(n) : n \in BetaLens}
BenchInputs == {<<>>, Flat(11, 100), Flat(61, 100), Zig(11), Zig(61), Steps(21),
                Steps(62), Doubling(11), Gaps(21), Recent(30, 6)}

IndicatorInputs ==
  {[closes |-> h, bench |-> <<>>] : h \in Histories}
  \cup {[closes |-> h, bench |-> b] : h \in BetaHistories, b \in BenchInputs}

MAPeriods == {1, 2, 50, 200}
RSIPeriods == {2, 14}

InitIndicators ==
  /\ SchedulerOff /\ NoAlerts
  /\ input \in {<<x>> : x \in IndicatorInputs} /\ output = <<>>
  /\ now = 0 /\ ticks = 0 /\ starts = 0
  /\ hasKey = FALSE
  /\ cache = <<>>
  /\ bench = <<>>
  /\ yfAvail = <<>> /\ yfTimers = {}
  /\ slots = {}
  /\ call = [c \in Callers \cup Runners |-> IdleCall]
  /\ db = <<>>
  /\ loadState = "done"
  /\ firstServed = [k \in Keys |-> <<>>]
  /\ liveOk = {} /\ dbKeys = {}

\* one calculation is applied to the history and its result kept
Applied(fn, arg, val) ==
  /\ output = <<>>
  /\ output' = <<[fn |-> fn, arg |-> arg, val |-> val]>>
  /\ UNCHANGED <<now, ticks, starts, hasKey, cache, bench, yfAvail, yfTimers, slots, call, db,
                 loadState, firstServed, liveOk, dbKeys, schedVars, input, alertVars>>

ApplyMA == \E p \in MAPeriods : Applied("calcMA", p, calcMA(input[1].closes, p))

ApplyRSI == \E p \in RSIPeriods : Applied("calcRSI", p, calcRSI(input[1].closes, p))

ApplyVol == Applied("calcVol", 30, calcVol(input[1].closes, 30))

ApplyBeta == Applied("calcBeta", 60, calcBeta(input[1].closes, input[1].bench, 60))

NextIndicators == ApplyMA \/ ApplyRSI \/ ApplyVol \/ ApplyBeta

SpecIndicators == InitIndicators /\ [][NextIndicators]_vars

(* ------------------------------------------------------------------ *)
(* Properties of batchGetFullData                                      *)
(* ------------------------------------------------------------------ *)

\* the step is the start of call c / the return of call c
Starts(c) == call'[c].no # call[c].no
Finishes(c) == call'[c].pc = "done" /\ (call[c].pc # "done" \/ Starts(c))

\* the positions of the call's symbols that were cache misses
MissPositions(cr) == {i \in 1..Len(cr.symbols) : cr.symbols[i] \in Range(cr.uncached)}

\* C1: every call of batchGetFullData, whatever the batch and the providers'
\* behaviour, returns an array as long as symbols whose record at index i has
\* the symbol field canonicalSymbol(symbols[i]).
C1_LengthAndOrder ==
  \A c \in Callers :
    call[c].pc \in {"done", "threw"} =>
      /\ call[c].pc = "done"
      /\ Len(call[c].result) = Len(call[c].symbols)
      /\ \A i \in 1..Len(call[c].symbols) :
            call[c].result[i].symbol = Canon(call[c].symbols[i])

\* C2: batchGetFullData never throws or rejects, whatever the quote endpoint,
\* the time-series endpoint or the secondary batch endpoint answers.
C2_NeverThrows == \A c \in Callers : call[c].pc # "threw"

\* C3: with a non-empty miss set the primary adapter is invoked first when the
\* credential is configured; the secondary adapter is invoked if and only if
\* the primary is unconfigured or every record it returned has price 0, and
\* over the same miss set in the same order; with no miss no adapter is invoked.
C3_PrimaryThenSecondary ==
  \A c \in Callers :
    LET cr == call[c]
        primaryAllZero == cr.tdPrices # <<>> /\ \A i \in DOMAIN cr.tdPrices[1] : cr.tdPrices[1][i] = 0
    IN /\ cr.uncached = <<>> => cr.tdArg = <<>> /\ cr.yfArg = <<>>
       /\ cr.uncached # <<>> =>
            /\ cr.tdArg = IF hasKey THEN <<cr.uncached>> ELSE <<>>
            /\ cr.yfArg \in {<<>>, <<cr.uncached>>}
            /\ (hasKey /\ cr.yfArg # <<>>) => cr.tdPrices # <<>>
            /\ cr.pc \in {"td", "bench"} => cr.yfArg = <<>>
            /\ cr.pc \in {"health", "yf", "done"} =>
                 (cr.yfArg # <<>> <=> (~hasKey \/ primaryAllZero))

\* the primary answered a two-symbol miss set with price 0 only and the
\* secondary was called with that miss set
C3_Witness ==
  \E c \in Callers :
    /\ call[c].pc = "done" /\ hasKey /\ Len(call[c].uncached) = 2
    /\ call[c].tdArg = <<call[c].uncached>> /\ call[c].yfArg = <<call[c].uncached>>

\* C4: within one adapter batch the record at position i depends on the
\* provider's answer for symbol i only: a missing or error-flagged element
\* (primary: absent key or error object; secondary: absent or error-flagged
\* array position) gives the price-0 fallback record at that position, and
\* every other position carries the record parsed from its own element.
C4_PerSymbolIndependence ==
  \A c \in Callers :
    LET cr == call[c]
    IN /\ cr.tdOut # <<>> =>
            \A i \in 1..Len(cr.uncached) :
              LET raw == cr.uncached[i]
                  td == TdSym(raw)
                  ownQuote == [k \in {td} \cap DOMAIN cr.quotes |-> cr.quotes[k]]
                  ownSeries == [k \in {td} \cap DOMAIN cr.series |-> cr.series[k]]
              IN IF td \notin DOMAIN cr.quotes \/ cr.quotes[td].k = "error"
                   THEN cr.tdOut[1][i] = createFallbackData(raw)
                   ELSE /\ cr.tdOut[1][i] = TdRecord(raw, ownQuote, ownSeries, <<>>)
                        /\ cr.tdOut[1][i].price = cr.quotes[td].close
       /\ (cr.yfOut # <<>> /\ cr.yfRaw # <<>> /\ cr.yfRaw[1].kind = "json") =>
            \A i \in 1..Len(cr.uncached) :
              LET raw == cr.uncached[i]
                  e == cr.yfRaw[1].arr[i]
              IN IF e.k \in {"missing", "error"}
                   THEN cr.yfOut[1][i] = createFallbackData(raw)
                   ELSE /\ cr.yfOut[1][i] = YfRecord(raw, e)
                        /\ cr.yfOut[1][i].price = e.price

\* a primary batch of two symbols whose second element is an error object:
\* the first record is priced, the second is the fallback record
C4_Witness ==
  \E c \in Callers :
    /\ call[c].pc = "done" /\ call[c].via = "td" /\ Len(call[c].uncached) = 2
    /\ TdSym(call[c].uncached[2]) \in DOMAIN call[c].quotes
    /\ call[c].quotes[TdSym(call[c].uncached[2])].k = "error"
    /\ call[c].tdOut[1][1].price > 0
    /\ call[c].tdOut[1][2].price = 0

\* C5 as claimed: whenever the primary leaves a miss symbol unresolved (its
\* record has price 0), the secondary adapter is called for that symbol before
\* the symbol gets a fallback record.
C5_FallthroughPerSymbol ==
  \A c \in Callers :
    (call[c].pc = "done" /\ call[c].tdOut # <<>>) =>
      \A i \in 1..Len(call[c].uncached) :
        call[c].tdOut[1][i].price = 0 =>
          /\ call[c].yfArg # <<>>
          /\ call[c].uncached[i] \in Range(call[c].yfArg[1])

\* C5 amended: the fall-through is for the whole miss set: when no record the
\* primary returned is priced, the secondary is called with the miss set and
\* every miss position returns the secondary's record for its symbol; when
\* the primary priced at least one symbol, the secondary is not called and
\* every miss position returns the primary's record, price 0 where the
\* primary left the symbol unresolved.
C5_FallthroughPerBatch ==
  \A c \in Callers :
    LET cr == call[c]
    IN (cr.pc = "done" /\ cr.tdPrices # <<>>) =>
         IF \A i \in 1..Len(cr.uncached) : cr.tdPrices[1][i] = 0
           THEN /\ cr.yfArg = <<cr.uncached>> /\ cr.yfOut # <<>>
                /\ \A j \in MissPositions(cr) :
                     \E i \in 1..Len(cr.uncached) :
                       cr.uncached[i] = cr.symbols[j] /\ cr.result[j] = cr.yfOut[1][i]
           ELSE /\ cr.yfArg = <<>> /\ cr.yfRaw = <<>> /\ cr.yfOut = <<>> /\ cr.tdOut # <<>>
                /\ \A j \in MissPositions(cr) :
                     \E i \in 1..Len(cr.uncached) :
                       /\ cr.uncached[i] = cr.symbols[j]
                       /\ cr.result[j] = cr.tdOut[1][i]
                       /\ cr.result[j].price = cr.tdPrices[1][i]

\* the primary priced one symbol of the miss set and not the other, which is
\* returned with price 0 and without a call of the secondary
C5_Witness ==
  \E c \in Callers :
    /\ call[c].pc = "done" /\ call[c].tdPrices # <<>> /\ call[c].yfArg = <<>>
    /\ \E i, j \in 1..Len(call[c].uncached) :
         call[c].tdPrices[1][i] = 0 /\ call[c].tdPrices[1][j] > 0
    /\ \E j \in 1..Len(call[c].result) : call[c].result[j].price = 0

\* the fallback record C6 describes: name and sector of the static tables when
\* the ticker of the canonical symbol is listed there
ListedTw(c) == IF endsWith(c, DotTW) THEN TW_SECTOR_MAP(DropLast(c, 3)) ELSE <<>>

DescribedFallback(s) ==
  LET c == canonicalSymbol(s)
  IN [ symbol |-> c,
       name |-> IF ListedTw(c) # <<>> THEN ListedTw(c)[1].name ELSE c,
       price |-> 0, prevClose |-> 0, change |-> 0, ma50 |-> 0, ma200 |-> 0,
       rsi |-> 50,
       sector |-> IF ListedTw(c) # <<>> THEN ListedTw(c)[1].sector
                  ELSE IF US_SECTOR_MAP(c) # <<>> THEN US_SECTOR_MAP(c)[1]
                  ELSE "Other",
       beta |-> 1, volatility30d |-> 20, sparkline |-> <<>> ]

DescribedFallbackTab == [s \in SymbolInputs |-> DescribedFallback(s)]

\* C6: with no provider configured or every provider unreachable the call
\* returns, and every symbol that is not a cache hit gets the fallback record:
\* canonical symbol, price 0, neutral indicators, empty sparkline, name and
\* sector of the static tables when the symbol is listed, else the canonical
\* symbol and "Other".
C6_TotalOutageFallback ==
  \A c \in Callers :
    LET cr == call[c]
        secondaryDown == cr.yfArg # <<>> /\ (cr.yfRaw = <<>> \/ cr.yfRaw[1].kind # "json")
    IN (cr.pc = "done" /\ cr.uncached # <<>> /\ secondaryDown) =>
         \A j \in MissPositions(cr) : cr.result[j] = DescribedFallbackTab[cr.symbols[j]]

\* C7 as claimed: when a call returns a symbol that an earlier call returned
\* and the cache entry of that earlier serve has not expired, the call made no
\* provider call for the symbol and returns the same record as the earlier one.
C7_SecondServeSame ==
  [][\A c \in Callers :
       Finishes(c) =>
         \A k \in ServedKeys(call'[c].symbols) :
           (firstServed[k] # <<>> /\ now <= firstServed[k][1].exp) =>
             /\ k \notin ServedKeys(call'[c].uncached)
             /\ \A i \in 1..Len(call'[c].symbols) :
                  Canon(call'[c].symbols[i]) = k =>
                    call'[c].result[i] = firstServed[k][1].rec]_vars

\* C7 amended: a call that starts while the cache still holds, unexpired, the
\* entry of an earlier serve of the symbol (the record that serve returned for
\* its last position with that key, not replaced by another request's write)
\* makes no provider call for the symbol, in whatever notation, and returns
\* exactly that record.
C7_UnreplacedEntryServed ==
  [][\A c \in Callers :
       /\ Starts(c) =>
            \A i \in 1..Len(call'[c].symbols) :
              LET s == call'[c].symbols[i]
                  k == Canon(s)
              IN (/\ firstServed[k] # <<>>
                  /\ k \in DOMAIN cache
                  /\ cache[k] = [value |-> firstServed[k][1].rec,
                                 expireAt |-> firstServed[k][1].exp]
                  /\ now <= firstServed[k][1].exp) =>
                   /\ s \notin Range(call'[c].uncached)
                   /\ IF call'[c].pc = "done"
                        THEN call'[c].result[i] = firstServed[k][1].rec
                        ELSE /\ s \in DOMAIN call'[c].results
                             /\ call'[c].results[s] = firstServed[k][1].rec
       /\ (Finishes(c) /\ ~Starts(c)) =>
            \A i \in 1..Len(call[c].symbols) :
              call[c].symbols[i] \in DOMAIN call[c].results =>
                call'[c].result[i] = call[c].results[call[c].symbols[i]]]_vars

\* the second request asks for the ticker in both notations after the first
\* one returned it priced: both positions are hits and carry the record of
\* the first serve
C7_Witness ==
  \E c \in Callers :
    /\ call[c].no = 2 /\ call[c].pc = "done" /\ call[c].uncached = <<>>
    /\ Len(call[c].symbols) = 2
    /\ \A i \in 1..2 :
         /\ firstServed[Canon(call[c].symbols[i])] # <<>>
         /\ call[c].result[i] = firstServed[Canon(call[c].symbols[i])][1].rec
    /\ call[c].result[1].price > 0

C9_LazyExpiry ==
  [][/\ \A c \in Callers :
          Starts(c) =>
            /\ \A k \in DOMAIN call'[c].hitExp :
                 /\ k \in DOMAIN cache
                 /\ call'[c].hitExp[k] = cache[k].expireAt
                 /\ now <= cache[k].expireAt
            /\ \A k \in ServedKeys(call'[c].symbols) \cap DOMAIN cache :
                 now > cache[k].expireAt =>
                   /\ k \notin DOMAIN call'[c].hitExp
                   /\ k \in ServedKeys(call'[c].uncached)
                   /\ k \in DOMAIN cache' => cache'[k].expireAt = now + TTL_FULL
     /\ \A k \in DOMAIN cache \ DOMAIN cache' :
          /\ now > cache[k].expireAt
          /\ \E c \in Callers : Starts(c) /\ k \in ServedKeys(call'[c].symbols)
     /\ TTLCache_stats(cache, now).total = Cardinality(DOMAIN cache)
     /\ TTLCache_stats(cache, now).alive
          <= Cardinality({k \in DOMAIN cache : now <= cache[k].expireAt})]_vars

\* the second call read an expired entry (a miss, the entry deleted and
\* fetched anew) while the expired entry of another symbol, not read, is
\* still stored and counted in total only
C9_Witness ==
  \E c \in Callers :
    /\ call[c].no = 2 /\ call[c].uncached # <<>>
    /\ \E k \in DOMAIN cache : now > cache[k].expireAt
    /\ TTLCache_stats(cache, now).total > TTLCache_stats(cache, now).alive

\* C10: once a live provider fetch has succeeded for a symbol, the snapshot
\* rehydrated from the durable store is not served for it again, however the
\* startup load interleaves with the fetches.
C10_SnapshotNotServedAfterLive ==
  [][\A c \in Callers :
       Starts(c) =>
         \A k \in DOMAIN call'[c].hitExp : k \in liveOk => k \notin dbKeys]_vars
\* how far a call has come: the quote and time-series requests are out (td),
\* the benchmark requests, the health probe, the batch request, the return
Rank(pc) ==
  CASE pc = "idle" -> 0 [] pc = "td" -> 1 [] pc = "bench" -> 2 [] pc = "health" -> 3
    [] pc = "yf" -> 4 [] OTHER -> 5

AllZeroPrices(cr) ==
  cr.tdPrices = <<[i \in 1..Len(cr.uncached) |-> 0]>>

\* the step takes call c forward, never back to a request it has sent: the
\* quote and time-series requests go out once, when the call starts, and the
\* batch request once, each for the miss set
C24_EachEndpointOnce(c) ==
  /\ (~Starts(c) /\ call'[c] # call[c]) => Rank(call'[c].pc) > Rank(call[c].pc)
  /\ (call'[c].pc = "td" /\ call'[c] # call[c]) => Starts(c)
  /\ call'[c].pc = "td" => call'[c].tdArg = <<call'[c].uncached>>
  /\ call'[c].pc \in {"health", "yf"} => call'[c].yfArg = <<call'[c].uncached>>

\* tdFetch gives null for a timeout as for a non-2xx status or an error body,
\* and fetchFromYfinance maps a timeout as a non-2xx status; a call whose
\* primary adapter returned at once with no quotes (the quote request gave
\* nothing) has every miss symbol unresolved by the primary and goes on to the
\* secondary; a call whose batch request timed out or failed
\* returns with a fallback record for every miss symbol
C24_FailureUnresolves(c) ==
  /\ \A r \in {x \in QuoteResponses(TdSyms(call[c].uncached)) :
                  x.kind # "json" \/ x.status = "error"} :
        tdFetch(TRUE, r) = <<>>
  /\ YfMap(call[c].uncached, [kind |-> "neterr", arr |-> <<>>])
       = YfMap(call[c].uncached, [kind |-> "http", arr |-> <<>>])
  /\ (call[c].pc = "td" /\ ~Starts(c)
        /\ call'[c].tdPrices # <<>> /\ call'[c].quotes = <<>>) =>
        /\ AllZeroPrices(call'[c])
        /\ call'[c].pc \in {"health", "yf", "done"}
        /\ call'[c].yfArg = <<call'[c].uncached>>
  /\ (call[c].pc = "yf" /\ call'[c] # call[c] /\ ~Starts(c)
        /\ call'[c].yfRaw[1].kind \in {"neterr", "http"}) =>
        /\ call'[c].pc = "done"
        /\ call'[c].yfOut = <<MapFallback(call'[c].uncached)>>

\* the step is the return of a call whose quotes came and whose time-series
\* request gave nothing (a timeout, a network error, a non-2xx status)
SeriesFailed(c) ==
  /\ call[c].pc \in {"td", "bench"} /\ ~Starts(c)
  /\ call'[c].pc = "done" /\ call'[c].via = "td"
  /\ call'[c].quotes # <<>> /\ call'[c].series = <<>>

\* C24 as claimed: within one call each provider endpoint is requested at
\* most once, for the miss set; a request that times out is treated as one
\* that fails, never sent again, and its symbols become unresolved, the
\* symbols of the time-series request too.
C24_FailedRequestUnresolves ==
  [][\A c \in Callers :
       /\ C24_EachEndpointOnce(c)
       /\ C24_FailureUnresolves(c)
       /\ SeriesFailed(c) => AllZeroPrices(call'[c])]_vars

\* C24 amended: within one call each provider endpoint is requested at most
\* once, for the miss set; a request that times out is treated as one that
\* fails and is never sent again; the symbols of a failed quote or batch
\* request become unresolved, while after a failed time-series request every
\* symbol still gets the record of its quote, computed over an empty history.
C24_OnceAndNeverRetried ==
  [][\A c \in Callers :
       /\ C24_EachEndpointOnce(c)
       /\ C24_FailureUnresolves(c)
       /\ SeriesFailed(c) =>
            \A i \in 1..Len(call'[c].uncached) :
              call'[c].tdOut[1][i] =
                TdRecord(call'[c].uncached[i], call'[c].quotes, <<>>, <<>>)]_vars

\* the primary left every miss symbol unresolved, the batch request to the
\* secondary timed out, and the call has returned fallback records
C24_Witness ==
  \E c \in Callers :
    /\ call[c].pc = "done" /\ call[c].uncached # <<>>
    /\ call[c].tdArg # <<>> /\ AllZeroPrices(call[c])
    /\ call[c].yfRaw # <<>> /\ call[c].yfRaw[1].kind = "neterr"
    /\ \A i \in 1..Len(call[c].result) : call[c].result[i].price = 0

\* the step takes call c to the state pc from another state or another call
Enters(c, pc) == call'[c].pc = pc /\ (call[c].pc # pc \/ Starts(c))

\* C25: a health probe is sent only while the secondary's health is unknown;
\* a known result stays as it is until it returns to unknown, 300 s or more
\* after every completed probe; while the result is unhealthy no batch request
\* is sent and a call that needs the secondary returns a fallback record for
\* every miss symbol; with any number of sequential and overlapping calls
C25_HealthReusedFor300s ==
  [][/\ \A c \in Callers : Enters(c, "health") => yfAvail = <<>>
     /\ (yfAvail # <<>> /\ yfAvail' # yfAvail) =>
          (yfAvail' = <<>> /\ \A d \in yfTimers : now >= d)
     /\ \A c \in Callers : Enters(c, "yf") => yfAvail # <<FALSE>>
     /\ \A c \in Callers :
          (Finishes(c) /\ yfAvail = <<FALSE>> /\ call'[c].via = "yf") =>
             /\ call'[c].yfRaw = <<>>
             /\ call'[c].yfOut = <<MapFallback(call'[c].uncached)>>]_vars

\* the closes the primary's time series gave for the i-th miss symbol of a call
\* (latest first), none when it gave none
HistoryOf(cr, i) ==
  IF TdSym(cr.uncached[i]) \in DOMAIN cr.series THEN cr.series[TdSym(cr.uncached[i])]
  ELSE <<>>

\* the primary built the record of the i-th miss symbol from a quote
BuiltFromQuote(cr, i) ==
  /\ TdSym(cr.uncached[i]) \in DOMAIN cr.quotes
  /\ cr.quotes[TdSym(cr.uncached[i])].k # "error"

\* C26 as claimed: the sparkline of a record the primary built is the latest
\* closes of the history, 30 at most, latest first (its first element is the
\* latest close); the sparkline of a fallback record is empty.
C26_SparklineLatestFirst ==
  \A c \in Callers :
    (call[c].pc = "done" /\ call[c].via = "td") =>
      \A i \in 1..Len(call[c].uncached) :
        LET h == HistoryOf(call[c], i)
            sp == call[c].tdOut[1][i].sparkline
        IN IF BuiltFromQuote(call[c], i)
             THEN /\ Len(sp) = Min(30, Len(h))
                  /\ \A j \in 1..Len(sp) : sp[j] = h[j]
             ELSE sp = <<>>

\* C26 amended: the sparkline of a record the primary built is the latest
\* closes of the history, 30 at most, oldest first (its last element is the
\* latest close); the sparkline of a fallback record is empty.
C26_SparklineOldestFirst ==
  \A c \in Callers :
    (call[c].pc = "done" /\ call[c].via = "td") =>
      \A i \in 1..Len(call[c].uncached) :
        LET h == HistoryOf(call[c], i)
            sp == call[c].tdOut[1][i].sparkline
        IN IF BuiltFromQuote(call[c], i)
             THEN /\ Len(sp) = Min(30, Len(h))
                  /\ \A j \in 1..Len(sp) : sp[j] = h[Len(sp) + 1 - j]
             ELSE sp = <<>>

\* a call returned a record built from a quote and a history of 31 closes whose
\* latest is 0: the sparkline has 30 closes and ends with the latest
C26_Witness ==
  \E c \in Callers :
    /\ call[c].pc = "done" /\ call[c].via = "td"
    /\ \E i \in 1..Len(call[c].uncached) :
         /\ BuiltFromQuote(call[c], i)
         /\ Len(HistoryOf(call[c], i)) = 31
         /\ Len(call[c].tdOut[1][i].sparkline) = 30
         /\ call[c].tdOut[1][i].sparkline[30] = 0
         /\ call[c].tdOut[1][i].sparkline[1] = 100

\* C23: every record of the array a call returns, whichever way it was made,
\* has an rsi from 0 to 100
C23_RsiInRange ==
  \A c \in Callers \cup Runners :
    call[c].pc = "done" =>
      \A i \in 1..Len(call[c].result) :
        call[c].result[i].rsi >= 0 /\ call[c].result[i].rsi <= 100

\* C22: the records of the array a call returns have pairwise different symbols
C22_SymbolsUnique ==
  \A c \in Callers :
    call[c].pc = "done" =>
      \A i, j \in 1..Len(call[c].result) :
        i # j => call[c].result[i].symbol # call[c].result[j].symbol

(* ------------------------------------------------------------------ *)
(* Properties of the symbol helpers                                    *)
(* ------------------------------------------------------------------ *)

\* C20: canonicalSymbol returns a string for every input, and applying it to
\* its own result gives that result again
C20_TotalAndIdempotent ==
  /\ \A i \in 1..Len(output) : output[i] \in Seq(STRING)
  /\ Len(output) >= 2 => output[2] = output[1]

\* C21: the canonical form of a symbol ends with '.TW' exactly when
\* detectMarket classifies the symbol as Taiwan, holds no ':XTAI', and is
\* classified by detectMarket as the symbol itself is
C21_CanonicalKeepsMarket ==
  output # <<>> =>
    /\ endsWith(output[1], DotTW) <=> (detectMarket(input[1]) = "TW")
    /\ ~includes(output[1], ColXTAI)
    /\ detectMarket(output[1]) = detectMarket(input[1])

(* ------------------------------------------------------------------ *)
(* Properties of the scheduler                                         *)
(* ------------------------------------------------------------------ *)

\* C11: a run (manual force refresh or daily refresh) passes every symbol of
\* every batch to a provider adapter, whether or not the cache holds an
\* unexpired entry for it: no symbol of a batch is served as a cache hit
C11_RefreshBypassesCache ==
  \A r \in Runners : \A k \in 1..Len(run[r].batches) :
    run[r].batches[k].misses = run[r].batches[k].symbols

\* the runs between the setting of the flag and its clearing
InFlight == {r \in Runners : run[r].pc \in {"batch", "pause", "toflush", "flush"}}

\* the step is a request for runDailyUpdate by r
Requests(r) == run'[r].no # run[r].no

\* C12: at most one run is in its batch and flush phase, and the flag is set
\* exactly while one is; a run requested while another is in flight returns
\* {updated: 0, failed: 0} in the same step, which calls no provider, writes
\* neither the cache nor the durable store and starts no flush; and a dropped
\* run is never resumed
C12_OneRunAtATime ==
  /\ [](Cardinality(InFlight) <= 1 /\ (isRunning <=> InFlight # {}))
  /\ [][\A r \in Runners :
         /\ (Requests(r) /\ InFlight # {}) =>
               /\ run'[r].pc = "dropped"
               /\ run'[r].updated = 0 /\ run'[r].failed = 0
               /\ run'[r].batches = <<>> /\ run'[r].flushes = <<>>
               /\ UNCHANGED <<cache, call, starts, db, flush, isRunning>>
               /\ \A o \in Runners \ {r} : run'[o] = run[o]
         /\ (run[r].pc = "dropped" /\ ~Requests(r)) =>
               run'[r].pc \in {"dropped", "idle"}]_vars

\* a request was dropped while the other requester's run is in flight
C12_Witness ==
  \E r \in Runners : run[r].pc = "dropped" /\ InFlight # {} /\ r \notin InFlight

\* the next 06:00 of the local clock after t
NextSix(t) ==
  LET six == DAILY_UPDATE_HOUR * HOUR_MS
      today == (t \div DAY_MS) * DAY_MS + six
  IN IF today > t THEN today ELSE today + DAY_MS

\* C13: while the callback of the timer is not running exactly one timer is
\* armed, and none while it runs; each timer is armed for the next 06:00 local
\* after the moment it is armed; every firing is followed by a re-arming,
\* whatever the callback met (enumeration threw or gave nothing, run dropped,
\* batches failed, flush failed)
C13_AlwaysRearmed ==
  /\ [](Cardinality(timers) = (IF cb.pc = "idle" THEN 1 ELSE 0))
  /\ [](cb.armed = cb.fired + (IF cb.pc = "idle" THEN 1 ELSE 0))
  /\ [][\A d \in timers' \ timers : d = NextSix(now)]_vars
  /\ [](cb.pc # "idle" => <>(cb.pc = "idle"))

\* the timer has been re-armed after a firing whose run was dropped
C13_Witness ==
  /\ cb.pc = "idle" /\ cb.fired = 1 /\ cb.armed = 2 /\ cb.last = "dropped"
  /\ timers = {NextSix(now)}

\* the step is the end of r's run
Ends(r) == run[r].pc = "flush" /\ run'[r].pc = "done"

\* C14: the flag is set only by an accepted run request and cleared only by the
\* end of that run; the end of a run clears it whatever the batches and the
\* flush did; a request made while it is clear is accepted; and whenever it is
\* set it is eventually cleared
C14_RunStateReturnsToIdle ==
  /\ [][((~isRunning /\ isRunning') <=>
            (\E r \in Runners : Requests(r) /\ ~isRunning /\ run'[r].pc # "dropped"))
        /\ ((isRunning /\ ~isRunning') <=> (\E r \in Runners : Ends(r)))]_vars
  /\ [](isRunning => <>(~isRunning))

\* a run whose batch threw and whose flush failed has ended, the flag is clear
C14_Witness ==
  \E r \in Runners :
    /\ run[r].pc = "done" /\ ~isRunning
    /\ \E k \in 1..Len(run[r].batches) : run[r].batches[k].threw
    /\ run[r].flushes[1].end = "threw"

\* the k-th group of at most five of a symbol array
Group(symbols, k) ==
  [j \in 1..(IF 5 * k <= Len(symbols) THEN 5 ELSE Len(symbols) - 5 * (k - 1)) |->
     symbols[5 * (k - 1) + j]]

\* C15: the batches a run has called are, in order, the successive groups of
\* at most five of its symbols; a batch is called only after the one before it
\* has returned and at least 3 s have passed since; a pause begins after a
\* batch only when symbols remain; the flush is called at most once and only
\* after the last batch has returned; and a run that has ended has called
\* ceil(n/5) batches, one pause less (none for no batch) and one flush
C15_BatchesPausesFlush ==
  \A r \in Runners :
    LET rr == run[r]
        n == Len(rr.symbols)
        K == Len(rr.batches)
    IN rr.pc # "dropped" =>
         /\ \A k \in 1..K : rr.batches[k].symbols = Group(rr.symbols, k)
         /\ \A k \in 1..(K - 1) :
              /\ rr.batches[k].end <= rr.batches[k + 1].at
              /\ rr.batches[k + 1].at >= rr.batches[k].end + 3000
         /\ \A k \in 1..Len(rr.pauses) :
              /\ 5 * k < n
              /\ k <= K /\ rr.pauses[k] = rr.batches[k].end
         /\ Len(rr.pauses) \in {K - 1, K}
         /\ Len(rr.flushes) <= 1
         /\ Len(rr.flushes) = 1 =>
              /\ 5 * K >= n
              /\ call[r].pc = "idle"
              /\ K > 0 => rr.flushes[1].at >= rr.batches[K].end
         /\ rr.pc = "done" =>
              /\ K = (n + 4) \div 5
              /\ Len(rr.pauses) = (IF K = 0 THEN 0 ELSE K - 1)
              /\ Len(rr.flushes) = 1

\* a run over twelve symbols has ended: batches of 5, 5 and 2, two pauses
C15_Witness ==
  \E r \in Runners :
    /\ run[r].pc = "done" /\ Len(run[r].symbols) = 12
    /\ Len(run[r].batches) = 3
    /\ Len(run[r].batches[1].symbols) = 5
    /\ Len(run[r].batches[2].symbols) = 5
    /\ Len(run[r].batches[3].symbols) = 2
    /\ Len(run[r].pauses) = 2
    /\ run[r].batches[3].at >= 6000

\* the keys of the entries TTLCache.get still gives at time t
Unexpired(store, t) == {k \in DOMAIN store : TTLCache_get(store, k, t).value # <<>>}

\* the step is one of the running process, not the start of a new one
SameProcess == restarts' = restarts

\* C16: a flush that begins collects exactly the entries that are unexpired at
\* that time, each as the pair of its record's symbol and the record's text, and
\* leaves the memory cache as it is; each write of a flush sets the row of one
\* collected entry's symbol to that entry's text, leaves every other row alone
\* and leaves the memory cache as it is
C16_FlushWritesUnexpired ==
  [][SameProcess =>
       \A f \in Flushers :
         /\ flush'[f].no # flush[f].no =>
              /\ flush'[f].todo \cup flush'[f].wrote =
                   {<<cache[k].value.symbol, Serialize(cache[k].value)>> :
                      k \in Unexpired(cache, now)}
              /\ cache' = cache
         /\ (flush[f].pc = "writing" /\ flush'[f] # flush[f]) =>
              /\ cache' = cache
              /\ db' # db => \E e \in flush[f].todo :
                               /\ DOMAIN db' = DOMAIN db \cup {e[1]}
                               /\ db'[e[1]] = e[2]
                               /\ \A k \in DOMAIN db \ {e[1]} : db'[k] = db[k]]_vars

\* C17: when the startup load of a process with an empty memory cache gives the
\* stored rows, every record that a flush wrote is in the memory cache under
\* its symbol, equal in every field to the record that was flushed
C17_RoundTrip ==
  [][(loadState = "pending" /\ loadState' = "done" /\ cache = <<>>) =>
       \A k \in DOMAIN dbSrc :
         k \in DOMAIN cache' /\ cache'[k].value = dbSrc[k]]_vars

\* a load or a flush of the process has failed
StoreFailed ==
  \/ loadState = "failed"
  \/ \E f \in Flushers : flush[f].end \in {"threw", "nodb"}
  \/ \E r \in Runners : \E k \in 1..Len(run[r].flushes) :
       run[r].flushes[k].end \in {"threw", "nodb"}

\* C18: a load that fails (the store is unavailable or the query throws) ends
\* and leaves the memory cache as it was; a flush whose write fails, or that has
\* no store to write to, ends there and leaves the memory cache as it was; a
\* run whose flush failed ends with its counts and clears the flag; and after a
\* failure a run's call of batchGetFullData still reads from memory every
\* symbol whose entry is unexpired and asks the providers for the others
C18_StoreFailuresAreSkipped ==
  [][SameProcess =>
       /\ (loadState = "pending" /\ loadState' # "pending") =>
            /\ loadState' = "failed" => cache' = cache
       /\ \A f \in Flushers :
            (flush[f].pc = "writing" /\ flush'[f].end \in {"threw", "nodb"}) =>
               /\ flush'[f].pc = "done"
               /\ cache' = cache /\ db' = db
       /\ \A r \in Runners :
            (run[r].pc = "flush" /\ flush[r].end \in {"threw", "nodb"}
               /\ run'[r] # run[r]) =>
               /\ run'[r].pc = "done" /\ ~isRunning'
               /\ run'[r].flushes[1].end = flush[r].end
       /\ \A r \in Runners :
            (StoreFailed /\ Requests(r) /\ run'[r].pc = "batch") =>
               LET mem == {i \in 1..Len(call'[r].symbols) :
                             Canon(call'[r].symbols[i]) \in Unexpired(cache, now)}
               IN /\ call'[r].pc \in {"done", "td", "health", "yf"}
                  /\ \A i \in 1..Len(call'[r].symbols) :
                       IF i \in mem
                         THEN /\ call'[r].pc = "done"
                              /\ call'[r].result[i] =
                                   cache[Canon(call'[r].symbols[i])].value
                         ELSE call'[r].uncached = <<call'[r].symbols[i]>>]_vars

\* after a flush that threw, a run was served from memory, its own flush found
\* no store, and it has ended with the flag clear and the memory cache kept
C18_Witness ==
  /\ flush["endpoint"].end = "threw"
  /\ run["manual"].pc = "done" /\ ~isRunning
  /\ run["manual"].flushes[1].end = "nodb"
  /\ run["manual"].updated = 1
  /\ run["manual"].batches[1].misses = <<>>
  /\ Canon(C2330) \in DOMAIN cache
  /\ loadState = "done"

\* the records a call that has returned got from a provider
Fetched(cr) ==
  IF cr.via = "td" THEN cr.tdOut[1] ELSE IF cr.via = "yf" THEN cr.yfOut[1] ELSE <<>>

\* every entry the step wrote is one record that one call, returning in this
\* step, got from a provider, with the expiry of that write
C19_EntriesWhole ==
  \A k \in DOMAIN cache' :
    (k \notin DOMAIN cache \/ cache'[k] # cache[k]) =>
      \E c \in Callers :
        /\ Finishes(c)
        /\ \E i \in 1..Len(Fetched(call'[c])) :
             cache'[k] = [value |-> Fetched(call'[c])[i], expireAt |-> now + TTL_FULL]

\* C19: with requests overlapping in any order, every call ends by returning
\* an array as long as its symbols, in their order; and every cache entry a
\* step writes is one whole record of one call with the expiry of that write
C19_CompleteAndWhole ==
  [][/\ \A c \in Callers :
          /\ call'[c].pc # "threw"
          /\ Finishes(c) =>
               /\ Len(call'[c].result) = Len(call'[c].symbols)
               /\ \A i \in 1..Len(call'[c].symbols) :
                    call'[c].result[i].symbol = Canon(call'[c].symbols[i])
     /\ C19_EntriesWhole]_vars

(* ------------------------------------------------------------------ *)
(* Properties of the technical calculations                            *)
(* ------------------------------------------------------------------ *)

\* the result of the calculation `fn`, once it has been applied
ResultOf(fn) == output # <<>> /\ output[1].fn = fn

\* the periods among the first up-to-`days` ones whose older close is positive
UsablePeriods(closes, days) ==
  {i \in 1..Min(days, Len(closes) - 1) : closes[i + 1] > 0}

\* C27: calcVol returns the default 20 exactly when fewer than 5 of the first
\* up-to-30 periods are usable, so a history of fewer than 31 closes with 5
\* usable periods or more is not defaulted; every history has a result
C27_DefaultOnlyBelowFiveSamples ==
  ResultOf("calcVol") =>
    /\ output[1].val \in Int
    /\ (output[1].val = 20) <=>
         (Cardinality(UsablePeriods(input[1].closes, 30)) < 5)

\* the sum of f over the finite set S
RECURSIVE SumOver(_, _)
SumOver(f, S) ==
  IF S = {} THEN 0
  ELSE LET x == CHOOSE y \in S : TRUE IN f[x] + SumOver(f, S \ {x})

\* G and L: the summed gains and the summed losses of the first `period` deltas
Gains(closes, period) ==
  SumOver([i \in 1..period |-> closes[i] - closes[i + 1]],
          {i \in 1..period : closes[i] > closes[i + 1]})
Losses(closes, period) ==
  SumOver([i \in 1..period |-> closes[i + 1] - closes[i]],
          {i \in 1..period : closes[i] < closes[i + 1]})

\* C28: calcRSI is 50 below period + 1 closes, 100 when the summed loss of the
\* first `period` deltas is 0 (an all-flat series included), and 100 G / (G + L)
\* otherwise; the example history has G = 28 and L = 3
C28_RsiValue ==
  ResultOf("calcRSI") =>
    LET closes == input[1].closes
        period == output[1].arg
        val == output[1].val
    IN IF Len(closes) < period + 1 THEN val = Num(50)
       ELSE LET G == Gains(closes, period)
                L == Losses(closes, period)
            IN /\ L = 0 => val = Num(100)
               /\ L # 0 => val.n * (G + L) = 100 * G * val.d
               /\ closes = RsiExample /\ period = 14 => G = 28 /\ L = 3

C28_Witness ==
  /\ ResultOf("calcRSI")
  /\ input[1].closes = RsiExample /\ output[1].arg = 14
  /\ output[1].val = Frac(2800, 31)

\* the sum of f[a] .. f[b], and the sum of the first p closes
RECURSIVE SumBetween(_, _, _)
SumBetween(f, a, b) ==
  IF a > b THEN 0
  ELSE IF a = b THEN f[a]
  ELSE SumBetween(f, a, (a + b) \div 2) + SumBetween(f, (a + b) \div 2 + 1, b)

SumOfFirst(closes, p) == SumBetween(closes, 1, p)

\* C29: calcMA is 0 below `period` closes and the arithmetic mean of the first
\* `period` closes otherwise, so it is 0 for the periods 50 and 200 exactly
\* when fewer than 50 / 200 closes are there
C29_ZeroOnlyWhenShort ==
  ResultOf("calcMA") =>
    LET closes == input[1].closes
        p == output[1].arg
        val == output[1].val
    IN /\ Len(closes) < p => val = Num(0)
       /\ Len(closes) >= p => val.n * p = SumOfFirst(closes, p) * val.d
       /\ p \in {50, 200} => (val = Num(0) <=> Len(closes) < p)

\* C29 (amended): calcMA is 0 below `period` closes and the arithmetic mean of
\* the first `period` closes otherwise, so it is 0 for the periods 50 and 200
\* exactly when fewer than 50 / 200 closes are there or the first 50 / 200
\* closes sum to 0
C29_ZeroWhenShortOrZeroSum ==
  ResultOf("calcMA") =>
    LET closes == input[1].closes
        p == output[1].arg
        val == output[1].val
    IN /\ Len(closes) < p => val = Num(0)
       /\ Len(closes) >= p => val.n * p = SumOfFirst(closes, p) * val.d
       /\ p \in {50, 200} =>
            (val = Num(0) <=> (Len(closes) < p \/ SumOfFirst(closes, p) = 0))

C29_Witness ==
  /\ ResultOf("calcMA")
  /\ output[1].arg = 50 /\ Len(input[1].closes) = 50
  /\ SumOfFirst(input[1].closes, 50) = 0
  /\ output[1].val = Num(0)

\* the periods calcBeta pairs: the first up-to-`days` ones that both histories
\* have and whose two older closes are positive
PairedPeriods(sc, bc, days) ==
  {i \in 1..Min(days, Min(Len(sc) - 1, Len(bc) - 1)) : sc[i + 1] > 0 /\ bc[i + 1] > 0}

\* the benchmark returns of the periods P are all the same (zero variance)
ZeroVariance(bc, P) ==
  \A i, j \in P :
    (bc[i] - bc[i + 1]) * bc[j + 1] = (bc[j] - bc[j + 1]) * bc[i + 1]

C31_StoreHoldsNoUnresolved ==
  /\ \A k \in DOMAIN db : Parse(db[k]) # <<>> => Parse(db[k])[1].price # 0
  /\ \A k \in dbKeys : k \in DOMAIN cache => cache[k].value.price # 0

\* C32: no step replaces an unexpired memory entry with a price above 0 by a
\* price-0 record of the same key
C32_FallbackNeverReplacesPriced ==
  [][\A k \in DOMAIN cache :
       (/\ cache[k].value.price > 0
        /\ now <= cache[k].expireAt
        /\ k \in DOMAIN cache')
         => cache'[k].value.price # 0]_vars

\* C33: when a run that was not dropped returns and its flush ended without
\* the store failing, every key a provider resolved with a price above 0 during
\* the run has a priced record in the durable store
C33_ResolvedArePersisted ==
  [][(/\ run["manual"].pc = "flush"
      /\ run'["manual"].pc = "done"
      /\ flush["manual"].end \in {"ok", "empty"})
       => \A k \in liveOk :
            /\ k \in DOMAIN db'
            /\ Parse(db'[k]) # <<>>
            /\ Parse(db'[k])[1].price > 0]_vars

(* ------------------------------------------------------------------ *)
(* Properties of stopScheduler, of the counts and of the expiry checks *)
(* ------------------------------------------------------------------ *)

\* C34: once stopScheduler has returned no timer is armed and no scheduled
\* run starts, whatever the timer callback was doing when it was called
C34_StoppedStaysStopped ==
  /\ [](cb.stopped => timers = {})
  /\ [][cb.stopped => run'["timer"].no = run["timer"].no]_vars

\* C35: every memory entry is stored under the symbol of the record it holds,
\* and what a call has read from the cache for a symbol s is a record whose
\* symbol is canonicalSymbol(s)
C35_KeyIsRecordSymbol ==
  /\ \A k \in DOMAIN cache : cache[k].value.symbol = k
  /\ \A c \in Callers \cup Runners :
       \A s \in DOMAIN call[c].results : call[c].results[s].symbol = Canon(s)

\* the cache holds an entry written by the startup load and one a provider
\* resolved
C35_Witness ==
  /\ \E k \in DOMAIN cache : k \in dbKeys
  /\ \E k \in DOMAIN cache : k \in liveOk

\* the keys whose entry TTLCache.get would return now
Served(store, t) == {k \in DOMAIN store : TTLCache_get(store, k, t).value # <<>>}

\* C36: at every instant the entries TTLCache.get returns are those stats()
\* counts as alive and those flushCacheToDB would collect, and alive <= total
C36_ExpiryChecksAgree ==
  /\ TTLCache_stats(cache, now).alive = Cardinality(Served(cache, now))
  /\ FlushEntries(cache, now) =
       {<<cache[k].value.symbol, Serialize(cache[k].value)>> : k \in Served(cache, now)}
  /\ TTLCache_stats(cache, now).alive <= TTLCache_stats(cache, now).total


\* the quote batchGetQuotes returned to execution c for `symbol`: the one at the
\* position of the symbol in the array asked for; <<>> when the call threw
QuoteFor(c, symbol) ==
  IF call[c].pc # "done" THEN <<>>
  ELSE LET at == {i \in 1..Len(check[c].symbols) : check[c].symbols[i] = symbol}
       IN IF at = {} THEN <<>>
          ELSE <<batchGetQuotes(call[c].result)[CHOOSE i \in at : TRUE]>>

\* an alert an execution has marked triggered had a quote, and its price was not 0
MarkedOnResolvedQuote ==
  \A c \in Callers : \A id \in check[c].marked :
    /\ QuoteFor(c, alerts[id].symbol) # <<>>
    /\ QuoteFor(c, alerts[id].symbol)[1].price # 0

\* the step that marks an alert triggered leaves it triggered and inactive
MarkDeactivates ==
  \A c \in Callers : \A id \in check'[c].marked \ check[c].marked :
    alerts'[id].triggered /\ ~alerts'[id].active

\* no alert is marked triggered twice without having been switched on again
TriggersOnce == \A id \in 1..Len(alerts) : Len(alerts[id].hits) <= 1

\* C37: checkAndNotify marks no alert triggered whose symbol has a quote of
\* price 0 or no quote in the batch result, above or below; an alert it marks
\* is deactivated, and is marked at most once until it is re-enabled
C37_NoTriggerOnUnresolved ==
  /\ [](MarkedOnResolvedQuote /\ TriggersOnce)
  /\ [][MarkDeactivates]_vars

\* runner r's awaited batchGetFullData is over and the run takes its counts
TakesCounts(r) == run[r].pc = "batch" /\ run'[r].pc \in {"pause", "toflush"}

\* the step that takes a batch's counts adds the records priced above 0 to
\* updated and those priced 0 to failed, or the batch's size to failed when
\* the call threw
CountsOfBatch ==
  \A r \in Runners :
    TakesCounts(r) =>
      LET batch == Slice(run[r].symbols, run[r].i)
          result == call[r].result
      IN IF call[r].pc = "threw"
           THEN /\ run'[r].updated = run[r].updated
                /\ run'[r].failed = run[r].failed + Len(batch)
           ELSE /\ run'[r].updated = run[r].updated
                     + Cardinality({i \in 1..Len(result) : result[i].price > 0})
                /\ run'[r].failed = run[r].failed
                     + Cardinality({i \in 1..Len(result) : result[i].price = 0})

\* the counts a run that was not dropped returns add up to its symbols
CountsAddUp ==
  \A r \in Runners :
    run[r].pc = "done" => run[r].updated + run[r].failed = Len(run[r].symbols)

FlushReturn(fl) == IF fl.end = "threw" THEN 0 ELSE fl.n

\* C39: the count flushCacheToDB returns, which stock.flushCache reports as
\* flushed, is the number of rows that call wrote to stock_cache: 0 when the
\* store is unavailable, no more than the rows written when an upsert fails
C39_CountIsRowsWritten ==
  \A f \in Flushers :
    flush[f].pc = "done" =>
      /\ flush[f].end # "threw" => FlushReturn(flush[f]) = Cardinality(flush[f].wrote)
      /\ flush[f].end = "threw" => FlushReturn(flush[f]) <= Cardinality(flush[f].wrote)
====
